---- MODULE Spec2Model ----
(***************************************************************************)
(* A model of the session orchestration layer of notebooklm-mcp:           *)
(*   - SessionManager (the session registry), SharedContextManager (the    *)
(*     shared browser context pool) and BrowserSession, as driven by the   *)
(*     tool handlers;                                                      *)
(*   - BrowserSession.ask with its recover-once policy;                    *)
(*   - wait_for_latest_answer, the response watcher.                       *)
(* Every await of the code is a step boundary: an action is the effect of  *)
(* the awaited browser operation followed by the synchronous code up to    *)
(* the next await.                                                         *)
(***************************************************************************)
EXTENDS Integers, Sequences, FiniteSets, TLC

\* ------------------------------------------------------------------ bounds

\* CONFIG.maxSessions as configured for the model (MAX_SESSIONS).
MaxSessions == 2
\* CONFIG.sessionTimeout in clock ticks (SESSION_TIMEOUT).
SessionTimeout == 1
\* BrowserSession objects alive at the same time.
MaxObjs == 3
\* Browser contexts alive or referred to at the same time.
MaxCtx == 2
\* Answer containers on the page when the snapshot is taken.
MaxExisting == 1
\* Answer containers that appear after the question is submitted.
MaxNew == 2
\* Polls wait_for_latest_answer gets to make before its deadline.
MaxPolls == 5
\* Answers a session gives.
MaxMessages == 2
\* Cookies a context holds.
MaxCookies == 2
\* The clock of the cookies' expiry, in seconds.
MaxTime == 3
\* CONFIG.autoLoginTimeoutMs, in half seconds
LoginTimeout == 4
\* the length of the texts typed
MaxText == 3

\* ------------------------------------------------------------- value sets

SessionIds == {"s1", "s2", "s3"}
\* A URL is the sequence of its parts: "http://a" is <<"http", "://", "a">>,
\* "httpx" is <<"http", "x">>, "" is <<>>.
UrlA == <<"http", "://", "a">>
UrlB == <<"http", "://", "b">>
AbsoluteUrls == {UrlA, UrlB}
Urls == AbsoluteUrls \cup {<<"http", "x">>, <<"notebook">>, <<>>}
\* A URL with a scheme and an authority.
IsAbsoluteUrl(url) == Len(url) >= 3 /\ url[2] = "://"
\* The (session_id, notebook_url) arguments of ask_question; "" is an absent
\* session_id.
Requests == {<<"s1", UrlA>>, <<"s1", UrlB>>, <<"s2", UrlA>>, <<"s3", UrlA>>,
             <<"", UrlA>>, <<"s1", <<"notebook">> >>, <<"s3", <<"http", "x">> >>,
             <<"", <<>> >>}
Callers == {"c1", "c2"}
\* Without overlap one caller stands for all.
SeqCallers == {"c1"}

\* What an awaited browser operation may do: succeed, or (faults) also raise.
Outcomes(faults) == IF faults THEN BOOLEAN ELSE {TRUE}

\* Optional[bool]: None is the empty set, a value b is {b}.
None == {}
Some(b) == {b}
Val(o) == CHOOSE b \in o : TRUE
OptBool == {None, Some(TRUE), Some(FALSE)}

\* browser_options as far as the headless mode goes: its "show" and
\* "headless" entries (an absent or empty dict has both None).
BrowserOptions == {[show |-> None, headless |-> None],
                   [show |-> Some(TRUE), headless |-> None],
                   [show |-> None, headless |-> Some(FALSE)]}

\* The calls that overlap give the mode by show_browser alone, and an
\* absolute URL.
OptionsGiven(overlap) ==
    IF overlap THEN {[show |-> None, headless |-> None]} ELSE BrowserOptions
RequestsGiven(overlap) ==
    IF overlap THEN {r \in Requests : IsAbsoluteUrl(r[2])} ELSE Requests

Objs == 1..MaxObjs
Ctxs == 1..MaxCtx

VARIABLES
    sessions,        \* SessionManager._sessions, a dict: its items in insertion order
    obj,             \* the BrowserSession objects
    shared,          \* SharedContextManager's fields and the browser's contexts
    cleanup_task,    \* SessionManager._cleanup_task is a live task
    sweep,           \* the cleanup loop's position and its `inactive` list
    CONFIG_headless, \* CONFIG.headless
    shutdown,        \* the process has exited
    pc,              \* each tool call's position
    loc,             \* each tool call's locals
    max_sessions,    \* SessionManager._max_sessions
    done,            \* what the step just taken was and did
    ask,             \* one BrowserSession.ask call: its session, position and locals
    watch,           \* one ask_once from its snapshot on: wait_for_latest_answer's locals
    auth             \* one validate_cookies_expiry call: the context's cookies and the result

regVars == <<sessions, obj, shared, cleanup_task, sweep, CONFIG_headless,
             shutdown, pc, loc, max_sessions, done>>

vars == <<regVars, ask, watch, auth>>

\* ------------------------------------------------------------ dict

Keys(ss) == {ss[i].sid : i \in 1..Len(ss)}
Has(ss, sid) == sid \in Keys(ss)
Get(ss, sid) == (CHOOSE i \in 1..Len(ss) : ss[i].sid = sid)
\* self._sessions[sid]
At(ss, sid) == ss[Get(ss, sid)].o
\* del self._sessions[sid], self._sessions.pop(sid)
Del(ss, sid) == SelectSeq(ss, LAMBDA e : e.sid # sid)
\* self._sessions[sid] = o: a key that is present keeps its place
Put(ss, sid, o) ==
    IF Has(ss, sid)
    THEN [ss EXCEPT ![Get(ss, sid)] = [sid |-> sid, o |-> o]]
    ELSE Append(ss, [sid |-> sid, o |-> o])
Values(ss) == {ss[i].o : i \in 1..Len(ss)}
\* list(self._sessions.keys())
KeyList(ss) == [i \in 1..Len(ss) |-> ss[i].sid]

\* ------------------------------------------------- SharedContextManager
\* shared.context is self._context (0: None), shared.live the contexts alive
\* in the browser, shared.mode their headless flags; shared.ops is what the
\* step just taken did to the browser's contexts.  The Playwright driver
\* (self._pw) is started with the first launch and stopped by close_context.

Quiet(S) == [S EXCEPT !.ops = {}]

\* needs_headless_mode_change
NeedsHeadlessModeChange(S, override_headless, cfg_headless) ==
    IF S.current_headless = None
    THEN FALSE
    ELSE LET target == IF override_headless # None
                       THEN ~Val(override_headless)
                       ELSE cfg_headless
         IN  Val(S.current_headless) # target

\* How close_context may go: "closed", self._context.close() returned;
\* "stopped", it raised and self._pw.stop() returned; "raised", both raised,
\* which the step is labelled with.
Closings(faults) == IF faults THEN {"closed", "stopped", "raised"} ELSE {"closed"}

\* close_context.  The browsers are children of the Playwright driver: when
\* the driver is stopped none of its contexts stays alive.
CloseContext(S, closing) ==
    LET stopped == IF closing = "raised"
                   THEN [S EXCEPT !.ops = @ \cup {"stop_failed"}]
                   ELSE [S EXCEPT !.live = {},
                                  !.mode = [g \in Ctxs |-> TRUE],
                                  !.ops = @ \cup (IF S.live # {} THEN {"close"} ELSE {})]
    IN  IF S.context # 0 /\ closing = "closed"
        THEN [stopped EXCEPT !.context = 0, !.current_headless = None]
        ELSE stopped

\* _needs_recreation: the cookies() probe of a context that is not alive raises
ProbeFails(S) == S.context # 0 /\ S.context \notin S.live

NeedsRecreation(S) == S.context = 0 \/ ProbeFails(S)

\* A probe that forgets the dead context and keeps its headless flag.
AfterProbeKeepsMode(S) ==
    IF ProbeFails(S)
    THEN [S EXCEPT !.context = 0]
    ELSE S

\* _needs_recreation, its `except` clause
AfterProbe(S) ==
    IF ProbeFails(S)
    THEN [S EXCEPT !.context = 0, !.current_headless = None]
    ELSE S

\* Context objects that are not alive and that nothing refers to.
FreeCtxs(S) == {g \in Ctxs : g \notin S.live /\ g # S.context}

\* _recreate_context; launchOk = FALSE: launch_persistent_context raised.
\* It runs only after _needs_recreation, which leaves self._context None.
RecreateContext(S, override_headless, cfg_headless, launchOk) ==
    LET should_be_headless == IF override_headless # None
                              THEN ~Val(override_headless)
                              ELSE cfg_headless
    IN  IF launchOk /\ FreeCtxs(S) # {}
        THEN LET g == CHOOSE x \in FreeCtxs(S) : \A y \in FreeCtxs(S) : x <= y
             IN  [ok |-> TRUE,
                  S  |-> [S EXCEPT !.live = @ \cup {g},
                                    !.mode[g] = should_be_headless,
                                    !.ops = @ \cup {"launch"},
                                    !.context = g,
                                    !.current_headless = Some(should_be_headless)]]
        ELSE [ok |-> FALSE, S |-> S]

\* A launch that falls back to an isolated directory after any failure.
TryLaunchOrFallBack(strategy, first, second) ==
    LET dir == IF strategy = "isolated" THEN "isolated_dir" ELSE "base"
    IN  IF first = "ok"
        THEN [ok |-> TRUE, ops |-> {strategy, dir}]
        ELSE IF strategy = "single"
        THEN [ok |-> FALSE, ops |-> {strategy, dir, first, "launch_failed"}]
        ELSE [ok |-> second = "ok",
              ops |-> {strategy, dir, first, "fallback"}
                          \cup (IF second = "ok" THEN {} ELSE {"launch_failed"})]

\* _recreate_context, its launches under CONFIG.profileStrategy: first is
\* how try_launch goes for the first directory ("ok", or it raises with a
\* message of a profile in use, "singleton", or with another, "other"),
\* second how it goes for the isolated directory of the fallback.  ops are
\* the labels of what was done.
TryLaunch(strategy, first, second) ==
    LET dir == IF strategy = "isolated" THEN "isolated_dir" ELSE "base"
    IN  IF first = "ok"
        THEN [ok |-> TRUE, ops |-> {strategy, dir}]
        ELSE IF strategy = "single" \/ first # "singleton"
        THEN [ok |-> FALSE, ops |-> {strategy, dir, first, "launch_failed"}]
        ELSE [ok |-> second = "ok",
              ops |-> {strategy, dir, first, "fallback"}
                          \cup (IF second = "ok" THEN {} ELSE {"launch_failed"})]

\* get_or_create_context
GetOrCreateContext(S, override_headless, cfg_headless, closing, launchOk) ==
    LET S1 == IF NeedsHeadlessModeChange(S, override_headless, cfg_headless)
              THEN CloseContext(S, closing)
              ELSE S
    IN  IF NeedsRecreation(S1)
        THEN RecreateContext(AfterProbe(S1), override_headless, cfg_headless, launchOk)
        ELSE [ok |-> TRUE, S |-> S1]

\* A page lives as long as its context: after a step that led from S0 to S
\* the pages of a context that is no longer alive, or that the step closed
\* before it launched another one, are closed.
PagesAfter(os, S0, S) ==
    [o \in Objs |->
        IF /\ os[o].page = "open"
           /\ \/ os[o].pctx \notin S.live
              \/ "close" \in S.ops /\ os[o].pctx = S0.context
        THEN [os[o] EXCEPT !.page = "closed", !.pctx = 0]
        ELSE os[o]]

\* ------------------------------------------------------- BrowserSession

\* Time is kept relative to time.time(): a session's `idle` is
\* time.time() - last_activity in clock ticks, counted up to SessionTimeout + 1.
\* The objects that exist are obj[1], obj[2], ... in the order of their
\* created_at: the one constructed earlier has the smaller index.
NoSession == [session_id |-> "", notebook_url |-> <<>>, idle |-> 0,
              initialized |-> FALSE, page |-> "none", pctx |-> 0]

CreatedAt(o) == o

\* __init__: created_at = last_activity = time.time()
NewSession(session_id, notebook_url) ==
    [NoSession EXCEPT !.session_id = session_id, !.notebook_url = notebook_url]

\* A close that gives up when the page cannot be closed.
SessionCloseOrGiveUp(s, pageCloseOk) ==
    IF s.page # "none" /\ ~pageCloseOk
    THEN s
    ELSE [s EXCEPT !.page = "none", !.pctx = 0, !.initialized = FALSE]

\* close; pageCloseOk = FALSE: self._page.close() raised
SessionClose(s, pageCloseOk) ==
    IF s.page # "none" /\ pageCloseOk
    THEN [s EXCEPT !.page = "none", !.pctx = 0, !.initialized = FALSE]
    ELSE [s EXCEPT !.initialized = FALSE]

\* An update_activity that leaves last_activity as it is.
KeepActivity(s) == s

\* update_activity
UpdateActivity(s) == [s EXCEPT !.idle = 0]

\* A session counts as expired as soon as the timeout is reached.
IsExpiredAtTimeout(s, timeout_seconds) == s.idle >= timeout_seconds

\* is_expired
IsExpired(s, timeout_seconds) == s.idle > timeout_seconds

\* is_initialized
IsInitialized(s) == s.initialized /\ s.page # "none"

\* init: the context is acquired with no override, a page is opened in it,
\* and navigation, authentication and the wait for the chat input follow;
\* initOk = FALSE: one of those raised, and the page is closed again.
\* page.goto raises for a URL that is not absolute.
SessionInit(s, S, cfg_headless, closing, launchOk, initOk) ==
    IF s.initialized
    THEN [ok |-> TRUE, s |-> s, S |-> S]
    ELSE LET r == GetOrCreateContext(S, None, cfg_headless, closing, launchOk)
         IN  IF r.ok /\ initOk /\ IsAbsoluteUrl(s.notebook_url)
             THEN [ok |-> TRUE,
                   s  |-> UpdateActivity([s EXCEPT !.page = "open", !.pctx = r.S.context,
                                                   !.initialized = TRUE]),
                   S  |-> r.S]
             ELSE [ok |-> FALSE,
                   s  |-> [s EXCEPT !.page = "none", !.pctx = 0],
                   S  |-> r.S]

\* ----------------------------------------------------------- tool inputs

\* apply_browser_options, the headless field of the derived configuration
ApplyBrowserOptions(cfg_headless, options, show_browser) ==
    LET h1 == IF show_browser # None THEN ~Val(show_browser) ELSE cfg_headless
        h2 == IF options.show # None THEN ~Val(options.show) ELSE h1
    IN  IF options.headless # None THEN Val(options.headless) ELSE h2

\* handle_ask_question, the override handed to get_or_create_session
OverrideHeadless(options, show_browser) ==
    IF show_browser # None THEN show_browser
    ELSE IF options.show # None THEN options.show
    ELSE IF options.headless # None THEN Some(~Val(options.headless))
    ELSE None

\* ------------------------------------------------------- SessionManager

\* get_or_create_session, the checks of target_url: it is not empty and
\* target_url.startswith("http").  CONFIG.notebookUrl is not set.
TargetUrlOk(target_url) == target_url # <<>> /\ Head(target_url) = "http"

\* The session created last instead of the one created first.
NewestId(ss, os) ==
    LET maximal == {i \in 1..Len(ss) :
                        \A j \in 1..Len(ss) : CreatedAt(ss[i].o) >= CreatedAt(ss[j].o)}
    IN  ss[CHOOSE i \in maximal : \A j \in maximal : i <= j].sid

\* _cleanup_oldest: min(self._sessions, key=created_at), the first of the
\* minimal ones in the dict's order
OldestId(ss, os) ==
    LET minimal == {i \in 1..Len(ss) :
                        \A j \in 1..Len(ss) : CreatedAt(ss[i].o) <= CreatedAt(ss[j].o)}
    IN  ss[CHOOSE i \in minimal : \A j \in minimal : i <= j].sid

\* mode_change records what the call found at its entry: sessions were
\* registered and the headless mode it asks for was not the live context's.
NoLocals == [op |-> "none", session_id |-> "", notebook_url |-> <<>>,
             override_headless |-> None, original_headless |-> TRUE,
             todo |-> <<>>, session |-> 0, mode_change |-> FALSE,
             context |-> 0, should_be_headless |-> TRUE]

\* A session object that neither the registry nor a call in progress refers
\* to is garbage.  The objects left keep their order and move to the front.
Kept(os, ss, ls) ==
    {o \in Objs : o \in Values(ss) \/ (\E c \in Callers : ls[c].session = o)}

Rank(kept, o) == Cardinality({p \in kept : p <= o})

Collect(os, ss, ls) ==
    LET kept == Kept(os, ss, ls)
    IN  [obj      |-> [i \in Objs |->
                          IF i <= Cardinality(kept)
                          THEN os[CHOOSE o \in kept : Rank(kept, o) = i]
                          ELSE NoSession],
         sessions |-> [i \in 1..Len(ss) |-> [sid |-> ss[i].sid, o |-> Rank(kept, ss[i].o)]],
         loc      |-> [c \in Callers |->
                          [ls[c] EXCEPT !.session = IF @ = 0 THEN 0 ELSE Rank(kept, @)]]]

\* The state of the registry, the objects and the calls after a step.
Becomes(os, ss, ls) ==
    LET r == Collect(os, ss, ls)
    IN  obj' = r.obj /\ sessions' = r.sessions /\ loc' = r.loc

FreeObjs(os) == {o \in Objs : os[o] = NoSession}

Idle(c) == pc[c] = "idle"

\* No tool call and no sweep pass is in progress.
Quiescent == (\A c \in Callers : Idle(c)) /\ sweep.pc # "run"

\* What a step was and did: by, "sweep" for a step of the cleanup loop and ""
\* for any other; result, how get_or_create_session ended in it
\* ("reused": `return session` of line 78, "created": that of line 92, or the
\* exception raised); closed, the ids of the sessions whose close() it awaited.
Did(by, result, closed) == [by |-> by, result |-> result, closed |-> closed]
NoDone == Did("", "", {})
Outcome(label, returned, error) ==
    IF label = "ask" THEN returned ELSE IF label = "idle" THEN error ELSE ""

\* overlap = FALSE: an operation starts only when none is in progress.
\* The record of a step is looked at before the next call starts.
CanStart(c, overlap) == ~shutdown /\ Idle(c) /\ (overlap \/ Quiescent) /\ done = NoDone

\* Calls in progress that may still construct a session.
Constructing == {c \in Callers : pc[c] \in {"close_all", "close_context", "replace",
                                            "evict", "acquire"}
                                  /\ loc[c].op = "ask"}

\* A call ends: its `finally` restores CONFIG.headless.
Return(c, l, ss, os) ==
    /\ pc' = [pc EXCEPT ![c] = "idle"]
    /\ Becomes(os, ss, [loc EXCEPT ![c] = NoLocals])
    /\ CONFIG_headless' = l.original_headless

\* The locals a call still reads from the given position on; the others are dead.
LiveLocals(l, label) ==
    CASE label = "ask" ->
            [NoLocals EXCEPT !.op = l.op, !.original_headless = l.original_headless,
                             !.session = l.session, !.session_id = l.session_id,
                             !.notebook_url = l.notebook_url]
      [] label = "init" ->
            [NoLocals EXCEPT !.op = l.op, !.original_headless = l.original_headless,
                             !.session = l.session, !.session_id = l.session_id,
                             !.notebook_url = l.notebook_url,
                             !.mode_change = l.mode_change]
      [] label = "perform_setup" ->
            [NoLocals EXCEPT !.op = l.op, !.original_headless = l.original_headless]
      [] OTHER -> l

Goto(c, l, label, cfg, ss, os) ==
    /\ pc' = [pc EXCEPT ![c] = label]
    /\ Becomes(os, ss, [loc EXCEPT ![c] = LiveLocals(l, label)])
    /\ CONFIG_headless' = cfg

\* The capacity check that lets a call through when there is nothing to evict.
CapacityUnlessEmpty(c, l, cfg, ss, os) ==
    IF Len(ss) >= max_sessions /\ Len(ss) > 0
    THEN LET oldest_id == OldestId(ss, os)
         IN  Goto(c, [l EXCEPT !.session = At(ss, oldest_id)], "evict", cfg,
                  Del(ss, oldest_id), os)
    ELSE Goto(c, l, "acquire", cfg, ss, os)

\* The capacity check without the eviction.
CapacityNoEviction(c, l, cfg, ss, os) == Goto(c, l, "acquire", cfg, ss, os)

\* get_or_create_session, the capacity check and _cleanup_oldest up to its await
Capacity(c, l, cfg, ss, os) ==
    IF Len(ss) >= max_sessions
    THEN IF Len(ss) = 0
         THEN Return(c, l, ss, os)
         ELSE LET oldest_id == OldestId(ss, os)
              IN  Goto(c, [l EXCEPT !.session = At(ss, oldest_id)], "evict", cfg,
                       Del(ss, oldest_id), os)
    ELSE Goto(c, l, "acquire", cfg, ss, os)

\* get_or_create_session from `if session_id in self._sessions` to the next await
\* A lookup that returns whatever session the id is registered for.
LookupAnyUrl(c, l, cfg, ss, os) ==
    IF Has(ss, l.session_id)
    THEN Goto(c, [l EXCEPT !.session = At(ss, l.session_id)], "ask", cfg, ss,
              [os EXCEPT ![At(ss, l.session_id)] = UpdateActivity(@)])
    ELSE Capacity(c, l, cfg, ss, os)

Lookup(c, l, cfg, ss, os) ==
    IF Has(ss, l.session_id)
    THEN LET o == At(ss, l.session_id)
         IN  IF os[o].notebook_url # l.notebook_url
             THEN Goto(c, [l EXCEPT !.session = o], "replace", cfg, ss, os)
             ELSE Goto(c, [l EXCEPT !.session = o], "ask", cfg, ss,
                       [os EXCEPT ![o] = UpdateActivity(@)])
    ELSE Capacity(c, l, cfg, ss, os)

\* `for sid in ...: session = self._sessions.pop(sid); await session.close()`
\* up to the await: the ids that are no longer there raise KeyError, which is
\* caught, and the first one that is there is popped.  The effect of the
\* close that is awaited is taken with the pop.
RECURSIVE PopNext(_, _, _, _)
PopNext(ss, os, todo, pageCloseOk) ==
    IF todo = <<>>
    THEN [popped |-> FALSE, sid |-> {}, sessions |-> ss, obj |-> os, todo |-> todo]
    ELSE IF Has(ss, Head(todo))
    THEN [popped |-> TRUE, sid |-> {Head(todo)}, sessions |-> Del(ss, Head(todo)),
          obj |-> [os EXCEPT ![At(ss, Head(todo))] = SessionClose(@, pageCloseOk)],
          todo |-> Tail(todo)]
    ELSE PopNext(ss, os, Tail(todo), pageCloseOk)

\* close_all_sessions up to its first await: the sweep is cancelled and the
\* first session popped
EnterCloseAll(c, l, cfg, pageCloseOk) ==
    LET r == PopNext(sessions, obj, KeyList(sessions), pageCloseOk)
    IN  /\ cleanup_task' = FALSE
        /\ sweep' = [pc |-> IF cleanup_task THEN "dead" ELSE sweep.pc, inactive |-> <<>>]
        /\ Goto(c, [l EXCEPT !.todo = r.todo],
                IF r.popped THEN "close_all" ELSE "close_context", cfg, r.sessions, r.obj)
        /\ done' = Did("", "", r.sid)

\* handle_ask_question up to the first await of get_or_create_session
HandleAskQuestion(c, overlap, faults) ==
    /\ CanStart(c, overlap)
    /\ Cardinality(FreeObjs(obj)) > Cardinality(Constructing)
    /\ \E request \in RequestsGiven(overlap), show_browser \in OptBool,
          browser_options \in OptionsGiven(overlap), pageCloseOk \in Outcomes(faults) :
        LET session_id == request[1]
            notebook_url == request[2]
            cfg == ApplyBrowserOptions(CONFIG_headless, browser_options, show_browser)
            override_headless == OverrideHeadless(browser_options, show_browser)
        IN  IF ~TargetUrlOk(notebook_url)
            THEN /\ Return(c, [NoLocals EXCEPT !.original_headless = CONFIG_headless],
                           sessions, obj)
                 /\ UNCHANGED <<cleanup_task, sweep>>
                 /\ done' = Did("", "ValueError", {})
            ELSE \E sid \in (IF session_id = ""
                             THEN SessionIds \ Keys(sessions)
                             ELSE {session_id}) :
                 LET l == [NoLocals EXCEPT !.op = "ask", !.session_id = sid,
                                           !.notebook_url = notebook_url,
                                           !.override_headless = override_headless,
                                           !.original_headless = CONFIG_headless,
                                           !.mode_change =
                                               /\ sessions # <<>>
                                               /\ NeedsHeadlessModeChange(
                                                      shared, override_headless, cfg)]
                 IN  IF override_headless # None
                        /\ NeedsHeadlessModeChange(shared, override_headless, cfg)
                     THEN EnterCloseAll(c, l, cfg, pageCloseOk)
                     ELSE /\ Lookup(c, l, cfg, sessions, obj)
                          /\ UNCHANGED <<cleanup_task, sweep>>
                          /\ done' = Did("", Outcome(pc'[c], "reused", "RuntimeError"),
                                         {})
    /\ shared' = Quiet(shared)
    /\ UNCHANGED shutdown
    /\ UNCHANGED <<ask, watch, auth, max_sessions>>

\* close_all_sessions: a session.close() has returned; the next session is
\* popped, or the loop is over and close_context is awaited
CloseAllPop(c, faults) ==
    /\ ~shutdown
    /\ pc[c] = "close_all"
    /\ \E pageCloseOk \in Outcomes(faults) :
        LET r == PopNext(sessions, obj, loc[c].todo, pageCloseOk)
        IN  /\ Goto(c, [loc[c] EXCEPT !.todo = r.todo],
                    IF r.popped THEN "close_all" ELSE "close_context", CONFIG_headless,
                    r.sessions, r.obj)
            /\ done' = Did("", "", r.sid)
    /\ shared' = Quiet(shared)
    /\ UNCHANGED <<cleanup_task, sweep, shutdown>>
    /\ UNCHANGED <<ask, watch, auth, max_sessions>>

\* close_all_sessions, its end: close_context, and the caller goes on
CloseAllContext(c, faults) ==
    /\ ~shutdown
    /\ pc[c] = "close_context"
    /\ \E closing \in Closings(faults) :
        LET S == CloseContext(Quiet(shared), closing)
            os == PagesAfter(obj, shared, S)
        IN  /\ shared' = S
            /\ CASE loc[c].op = "ask" ->
                      /\ Lookup(c, loc[c], CONFIG_headless, sessions, os)
                      /\ UNCHANGED shutdown
                      /\ done' = Did("", Outcome(pc'[c], "reused", "RuntimeError"), {})
                 [] loc[c].op = "re_auth" ->
                      /\ Goto(c, loc[c], "perform_setup", CONFIG_headless, sessions, os)
                      /\ UNCHANGED shutdown
                      /\ done' = Did("", "", {})
                 [] OTHER ->
                      /\ Return(c, loc[c], sessions, os)
                      /\ shutdown' = TRUE
                      /\ done' = Did("", "", {})
    /\ UNCHANGED <<cleanup_task, sweep>>
    /\ UNCHANGED <<ask, watch, auth, max_sessions>>

\* A replacement that looks at the capacity before it removes the session.
ReplaceAfterCapacity(c, faults) ==
    /\ ~shutdown
    /\ pc[c] = "replace"
    /\ \E pageCloseOk \in Outcomes(faults) :
        LET l == loc[c]
            os == [obj EXCEPT ![l.session] = SessionClose(@, pageCloseOk)]
        IN  IF ~Has(sessions, l.session_id)
            THEN /\ Return(c, l, sessions, os)
                 /\ done' = Did("", "KeyError", {l.session_id})
            ELSE /\ IF Len(sessions) >= max_sessions
                    THEN LET ss == Del(sessions, l.session_id)
                             oldest_id == OldestId(ss, os)
                         IN  IF ss = <<>>
                             THEN Return(c, l, ss, os)
                             ELSE Goto(c, [l EXCEPT !.session = At(ss, oldest_id)],
                                       "evict", CONFIG_headless, Del(ss, oldest_id), os)
                    ELSE Goto(c, [l EXCEPT !.session = 0], "acquire", CONFIG_headless,
                              Del(sessions, l.session_id), os)
                 /\ done' = Did("", Outcome(pc'[c], "", "RuntimeError"),
                                {l.session_id})
    /\ shared' = Quiet(shared)
    /\ UNCHANGED <<cleanup_task, sweep, shutdown>>
    /\ UNCHANGED <<ask, watch, auth, max_sessions>>

\* get_or_create_session: the replaced session is closed and deleted
Replace(c, faults) ==
    /\ ~shutdown
    /\ pc[c] = "replace"
    /\ \E pageCloseOk \in Outcomes(faults) :
        LET l == loc[c]
            os == [obj EXCEPT ![l.session] = SessionClose(@, pageCloseOk)]
        IN  IF ~Has(sessions, l.session_id)
            THEN /\ Return(c, l, sessions, os)
                 /\ done' = Did("", "KeyError", {l.session_id})
            ELSE /\ Capacity(c, [l EXCEPT !.session = 0], CONFIG_headless,
                             Del(sessions, l.session_id), os)
                 /\ done' = Did("", Outcome(pc'[c], "", "RuntimeError"),
                                {l.session_id})
    /\ shared' = Quiet(shared)
    /\ UNCHANGED <<cleanup_task, sweep, shutdown>>
    /\ UNCHANGED <<ask, watch, auth, max_sessions>>

\* _cleanup_oldest: the evicted session is closed
Evict(c, faults) ==
    /\ ~shutdown
    /\ pc[c] = "evict"
    /\ \E pageCloseOk \in Outcomes(faults) :
        Goto(c, [loc[c] EXCEPT !.session = 0], "acquire", CONFIG_headless, sessions,
             [obj EXCEPT ![loc[c].session] = SessionClose(@, pageCloseOk)])
    /\ done' = Did("", "", {obj[loc[c].session].session_id})
    /\ shared' = Quiet(shared)
    /\ UNCHANGED <<cleanup_task, sweep, shutdown>>
    /\ UNCHANGED <<ask, watch, auth, max_sessions>>

\* get_or_create_session: the context is acquired and the session constructed
Acquire(c, faults) ==
    /\ ~shutdown
    /\ pc[c] = "acquire"
    /\ FreeObjs(obj) # {}
    /\ \E closing \in Closings(faults), launchOk \in Outcomes(faults) :
        LET l == loc[c]
            r == GetOrCreateContext(Quiet(shared), l.override_headless, CONFIG_headless,
                                    closing, launchOk)
            os == PagesAfter(obj, shared, r.S)
            o == CHOOSE x \in FreeObjs(obj) : \A y \in FreeObjs(obj) : x <= y
        IN  /\ shared' = r.S
            /\ IF r.ok
               THEN Goto(c, [l EXCEPT !.session = o], "init", CONFIG_headless, sessions,
                         [os EXCEPT ![o] = NewSession(l.session_id, l.notebook_url)])
               ELSE Return(c, l, sessions, os)
    /\ done' = Did("", Outcome(pc'[c], "", "Exception"), {})
    /\ UNCHANGED <<cleanup_task, sweep, shutdown>>
    /\ UNCHANGED <<ask, watch, auth, max_sessions>>

\* get_or_create_session: the session is initialized and registered
InitRegister(c, faults) ==
    /\ ~shutdown
    /\ pc[c] = "init"
    /\ \E closing \in Closings(faults), launchOk \in Outcomes(faults), initOk \in Outcomes(faults) :
        LET l == loc[c]
            o == l.session
            r == SessionInit(obj[o], Quiet(shared), CONFIG_headless, closing, launchOk,
                             initOk)
            os == [PagesAfter(obj, shared, r.S) EXCEPT ![o] = r.s]
        IN  /\ shared' = r.S
            /\ IF r.ok
               THEN Goto(c, l, "ask", CONFIG_headless, Put(sessions, l.session_id, o), os)
               ELSE Return(c, l, sessions, os)
    /\ done' = Did("", Outcome(pc'[c], "created", "Exception"), {})
    /\ UNCHANGED <<cleanup_task, sweep, shutdown>>
    /\ UNCHANGED <<ask, watch, auth, max_sessions>>

\* handle_ask_question: session.ask returns or raises.  A session that lost
\* its page or was closed meanwhile is initialized again by ask.
AskReturns(c, faults) ==
    /\ ~shutdown
    /\ pc[c] = "ask"
    /\ \E closing \in Closings(faults), launchOk \in Outcomes(faults), initOk \in Outcomes(faults), askOk \in Outcomes(faults) :
        LET l == loc[c]
            o == l.session
            s0 == IF obj[o].initialized /\ obj[o].page = "open"
                  THEN obj[o]
                  ELSE [obj[o] EXCEPT !.initialized = FALSE, !.page = "none", !.pctx = 0]
            r == SessionInit(s0, Quiet(shared), CONFIG_headless, closing, launchOk,
                             initOk)
            s1 == IF r.ok /\ askOk THEN UpdateActivity(r.s) ELSE r.s
            os == [PagesAfter(obj, shared, r.S) EXCEPT ![o] = s1]
        IN  /\ shared' = r.S
            /\ Return(c, l, sessions, os)
    /\ done' = Did("", "", {})
    /\ UNCHANGED <<cleanup_task, sweep, shutdown>>
    /\ UNCHANGED <<ask, watch, auth, max_sessions>>

\* handle_close_session: close_session
HandleCloseSession(c, overlap, faults) ==
    /\ CanStart(c, overlap)
    /\ \E session_id \in SessionIds, pageCloseOk \in Outcomes(faults) :
        LET l == [NoLocals EXCEPT !.original_headless = CONFIG_headless]
        IN  IF ~Has(sessions, session_id)
            THEN /\ Return(c, l, sessions, obj)
                 /\ done' = Did("", "", {})
            ELSE /\ Return(c, l, Del(sessions, session_id),
                           [obj EXCEPT ![At(sessions, session_id)] =
                                           SessionClose(@, pageCloseOk)])
                 /\ done' = Did("", "", {session_id})
    /\ shared' = Quiet(shared)
    /\ UNCHANGED <<cleanup_task, sweep, shutdown>>
    /\ UNCHANGED <<ask, watch, auth, max_sessions>>

\* handle_re_auth up to the first await of close_all_sessions
HandleReAuth(c, overlap, faults) ==
    /\ CanStart(c, overlap)
    /\ \E show_browser \in OptBool, browser_options \in BrowserOptions,
          pageCloseOk \in Outcomes(faults) :
        EnterCloseAll(c, [NoLocals EXCEPT !.op = "re_auth",
                                          !.original_headless = CONFIG_headless],
                      ApplyBrowserOptions(CONFIG_headless, browser_options, show_browser),
                      pageCloseOk)
    /\ shared' = Quiet(shared)
    /\ UNCHANGED shutdown
    /\ UNCHANGED <<ask, watch, auth, max_sessions>>

\* handle_re_auth: perform_setup is over, `finally` restores the configuration
ReAuthDone(c) ==
    /\ ~shutdown
    /\ pc[c] = "perform_setup"
    /\ Return(c, loc[c], sessions, obj)
    /\ done' = Did("", "", {})
    /\ shared' = Quiet(shared)
    /\ UNCHANGED <<cleanup_task, sweep, shutdown>>
    /\ UNCHANGED <<ask, watch, auth, max_sessions>>

\* ToolHandlers.cleanup on SIGINT/SIGTERM: close_all_sessions, then exit
Shutdown(c, overlap, faults) ==
    /\ CanStart(c, overlap)
    /\ \E pageCloseOk \in Outcomes(faults) :
        EnterCloseAll(c, [NoLocals EXCEPT !.op = "cleanup",
                                          !.original_headless = CONFIG_headless],
                      CONFIG_headless, pageCloseOk)
    /\ shared' = Quiet(shared)
    /\ UNCHANGED shutdown
    /\ UNCHANGED <<ask, watch, auth, max_sessions>>

\* The cleanup loop wakes up: cleanup_inactive_sessions picks the expired
\* sessions and pops the first
SweepWake(overlap, faults) ==
    /\ ~shutdown
    /\ cleanup_task
    /\ sweep.pc = "sleep"
    /\ overlap \/ Quiescent
    /\ \E pageCloseOk \in Outcomes(faults) :
        LET inactive == SelectSeq(KeyList(sessions),
                                  LAMBDA sid : IsExpired(obj[At(sessions, sid)],
                                                         SessionTimeout))
            r == PopNext(sessions, obj, inactive, pageCloseOk)
        IN  /\ sweep' = IF r.popped THEN [pc |-> "run", inactive |-> r.todo] ELSE sweep
            /\ Becomes(r.obj, r.sessions, loc)
            /\ done' = Did("sweep", "", r.sid)
    /\ shared' = Quiet(shared)
    /\ UNCHANGED <<cleanup_task, CONFIG_headless, shutdown, pc>>
    /\ UNCHANGED <<ask, watch, auth, max_sessions>>

\* cleanup_inactive_sessions: a session.close() has returned; the next
\* session is popped, or the pass is over and the loop sleeps again
SweepPop(faults) ==
    /\ ~shutdown
    /\ cleanup_task
    /\ sweep.pc = "run"
    /\ \E pageCloseOk \in Outcomes(faults) :
        LET r == PopNext(sessions, obj, sweep.inactive, pageCloseOk)
        IN  /\ sweep' = IF r.popped
                        THEN [pc |-> "run", inactive |-> r.todo]
                        ELSE [pc |-> "sleep", inactive |-> <<>>]
            /\ Becomes(r.obj, r.sessions, loc)
            /\ done' = Did("sweep", "", r.sid)
    /\ shared' = Quiet(shared)
    /\ UNCHANGED <<cleanup_task, CONFIG_headless, shutdown, pc>>
    /\ UNCHANGED <<ask, watch, auth, max_sessions>>

\* The browser context dies on its own (crash, window closed by the user);
\* delivered: its "close" event reaches on_close.
ContextClosedExternally ==
    /\ ~shutdown
    /\ shared.context \in shared.live
    /\ \E delivered \in BOOLEAN :
        LET S0 == [Quiet(shared) EXCEPT !.live = @ \ {shared.context},
                                        !.mode[shared.context] = TRUE]
            S == IF delivered
                 THEN [S0 EXCEPT !.context = 0, !.current_headless = None]
                 ELSE S0
        IN  /\ shared' = S
            /\ obj' = PagesAfter(obj, shared, S)
    /\ done' = NoDone
    /\ UNCHANGED <<sessions, cleanup_task, sweep, CONFIG_headless, shutdown, pc, loc>>
    /\ UNCHANGED <<ask, watch, auth, max_sessions>>

\* The record of the step just taken is dropped; the program does nothing.
Forget ==
    /\ done # NoDone
    /\ done' = NoDone
    /\ shared' = Quiet(shared)
    /\ UNCHANGED <<sessions, obj, cleanup_task, sweep, CONFIG_headless, shutdown, pc, loc>>
    /\ UNCHANGED <<ask, watch, auth, max_sessions>>

\* time passes: a clock tick
Tick ==
    /\ ~shutdown
    /\ \E o \in Objs : obj[o].session_id # "" /\ obj[o].idle <= SessionTimeout
    /\ obj' = [o \in Objs |->
                  IF obj[o].session_id # "" /\ obj[o].idle <= SessionTimeout
                  THEN [obj[o] EXCEPT !.idle = @ + 1]
                  ELSE obj[o]]
    /\ shared' = Quiet(shared)
    /\ done' = NoDone
    /\ UNCHANGED <<sessions, cleanup_task, sweep, CONFIG_headless, shutdown, pc, loc>>
    /\ UNCHANGED <<ask, watch, auth, max_sessions>>

\* ------------------------------------------------------------ page_utils
\* A text is a sequence of characters.  A page is the sequence of the texts of
\* its .to-user-container elements.

Whitespace == {" "}
Chars == {" ", "q", "Q", "t", "x"}

\* str.lower on one character
LowerChar(ch) == IF ch = "Q" THEN "q" ELSE ch

\* ord
Ord(ch) ==
    CASE ch = " " -> 32
      [] ch = "Q" -> 81
      [] ch = "q" -> 113
      [] ch = "t" -> 116
      [] ch = "x" -> 120

\* str.lower
RECURSIVE Lower(_)
Lower(s) == IF s = <<>> THEN <<>> ELSE <<LowerChar(Head(s))>> \o Lower(Tail(s))

RECURSIVE StripLeft(_)
StripLeft(s) ==
    IF s # <<>> /\ Head(s) \in Whitespace THEN StripLeft(Tail(s)) ELSE s

RECURSIVE StripRight(_)
StripRight(s) ==
    IF s # <<>> /\ s[Len(s)] \in Whitespace
    THEN StripRight(SubSeq(s, 1, Len(s) - 1))
    ELSE s

\* str.strip
Strip(s) == StripRight(StripLeft(s))

\* _hash_string: h = ((h << 5) - h + ord(ch)) & 0xFFFFFFFF for each character,
\* kept as the two 16-bit halves of the 32-bit word
RECURSIVE HashBits(_)
HashBits(s) ==
    IF s = <<>>
    THEN [hi |-> 0, lo |-> 0]
    ELSE LET h == HashBits(SubSeq(s, 1, Len(s) - 1))
             lo == h.lo * 31 + Ord(s[Len(s)])
         IN  [hi |-> (h.hi * 31 + lo \div 65536) % 65536, lo |-> lo % 65536]

\* _hash_string: a word of 0x80000000 or more is read as negative
HashString(s) ==
    LET h == HashBits(s)
    IN  IF h.hi >= 32768
        THEN (h.hi - 65536) * 65536 + h.lo
        ELSE h.hi * 65536 + h.lo

\* The texts a container may show, the questions asked, and the pages: the
\* containers that are there when the snapshot is taken stay, and up to MaxNew
\* containers follow them.
Texts == {<<" ">>, <<" ", "Q">>, <<"q">>, <<"t", " ">>, <<"x">>}
Questions == {<<"q">>, <<"Q", " ">>}

RECURSIVE SeqsUpTo(_, _)
SeqsUpTo(S, n) ==
    IF n = 0
    THEN {<<>>}
    ELSE LET shorter == SeqsUpTo(S, n - 1)
         IN  shorter \cup {Append(p, t) : p \in shorter, t \in S}

\* snapshot_all_responses: the stripped texts of the containers, in order.
\* queryOk = FALSE: query_selector_all raised, the result is empty;
\* a container outside `readable` raised and is skipped.
RECURSIVE SnapshotAllResponses(_, _, _)
SnapshotAllResponses(page, queryOk, readable) ==
    IF ~queryOk \/ page = <<>>
    THEN <<>>
    ELSE LET n == Len(page)
             before == SnapshotAllResponses(SubSeq(page, 1, n - 1), queryOk, readable)
         IN  IF n \in readable /\ Strip(page[n]) # <<>>
             THEN Append(before, Strip(page[n]))
             ELSE before

\* The first container, in page order, with a stripped text whose hash is unknown.
FirstUnknown(page, known_hashes) ==
    LET fresh == {i \in 1..Len(page) :
                      Strip(page[i]) # <<>> /\ HashString(Strip(page[i])) \notin known_hashes}
    IN  IF fresh = {}
        THEN {}
        ELSE {Strip(page[CHOOSE i \in fresh : \A j \in fresh : i <= j])}

\* _extract_latest_text, an Optional[str].  primaryOk = FALSE: the primary
\* selector raised and RESPONSE_SELECTORS are tried, the first of which finds
\* the same elements.
ExtractLatestText(page, known_hashes, primaryOk) ==
    IF primaryOk
    THEN IF Len(page) <= Cardinality(known_hashes)
         THEN {}
         ELSE FirstUnknown(page, known_hashes)
    ELSE FirstUnknown(page, known_hashes)

\* required_stable
required_stable == 3

\* A candidate seen twice counts as stable.
IsStableAtTwo(stable_count) == stable_count >= 2

\* stable_count >= required_stable
IsStable(stable_count) == stable_count >= required_stable

\* watch.ignore is the set of hashes wait_for_latest_answer starts with,
\* watch.visible the stripped texts the page showed when the snapshot was
\* taken, watch.steady the number of polls in a row, up to the last one, at
\* which watch.steady_text was the only text on the page whose hash is not in
\* watch.ignore, with no thinking indicator shown.  Of the last poll:
\* watch.skipped, the thinking indicator was visible; watch.candidate, what
\* _extract_latest_text returned; watch.fresh, the first text of the page,
\* in its order, whose hash was not in known_hashes; watch.sightings, the
\* number of polls in a row, polls with the indicator visible left out, at
\* which the candidate was watch.sighted.
NoWatch == [pc |-> "idle", question |-> <<>>, page0 |-> <<>>, existing |-> <<>>,
            ignore |-> {}, known_hashes |-> {}, poll_count |-> 0,
            last_candidate |-> {}, stable_count |-> 0, result |-> {},
            visible |-> {}, steady |-> 0, steady_text |-> {},
            skipped |-> FALSE, candidate |-> {}, fresh |-> {},
            sighted |-> {}, sightings |-> 0]

\* The question as it was typed.
RawQuestion(question) == question

\* question.strip().lower()
SanitizedQuestion(question) == Lower(Strip(question))

\* The stripped texts of a page.
VisibleTexts(page) == {Strip(page[i]) : i \in 1..Len(page)} \ {<<>>}

\* ask_once: existing = await snapshot_all_responses(page), for a question
AskOnceSnapshot ==
    /\ watch.pc = "idle"
    /\ \E question \in Questions, page0 \in SeqsUpTo(Texts, MaxExisting),
          queryOk \in BOOLEAN :
        \E readable \in SUBSET (1..Len(page0)) :
            watch' = [NoWatch EXCEPT
                         !.pc = "submit",
                         !.question = question,
                         !.page0 = page0,
                         !.visible = VisibleTexts(page0),
                         !.existing = SnapshotAllResponses(page0, queryOk, readable)]
    /\ UNCHANGED <<regVars, ask, auth>>

\* ask_once submits the question; wait_for_latest_answer up to its loop
WaitForLatestAnswer ==
    /\ watch.pc = "submit"
    /\ LET known_hashes == {HashString(Strip(watch.existing[i])) :
                                i \in {j \in 1..Len(watch.existing) :
                                           Strip(watch.existing[j]) # <<>>}}
       IN  watch' = [watch EXCEPT !.pc = "poll", !.ignore = known_hashes,
                                  !.known_hashes = known_hashes, !.existing = <<>>]
    /\ UNCHANGED <<regVars, ask, auth>>

\* The only text of the page that the watcher was not told to ignore, if there
\* is just one and it is not the question's echo.
SoleAnswer(page, ignore, question) ==
    LET unignored == {t \in VisibleTexts(page) : HashString(t) \notin ignore}
    IN  {t \in unignored : unignored = {t} /\ Lower(t) # SanitizedQuestion(question)}

Steady(w, page, thinking) ==
    LET sole == SoleAnswer(page, w.ignore, w.question)
    IN  IF thinking = "visible" \/ sole = {}
        THEN [w EXCEPT !.steady = 0, !.steady_text = {}]
        ELSE IF sole = w.steady_text
             THEN [w EXCEPT !.steady = IF @ < required_stable THEN @ + 1 ELSE @]
             ELSE [w EXCEPT !.steady = 1, !.steady_text = sole]

\* What a turn of the loop sees on the page: the thinking indicator, or the
\* candidate of _extract_latest_text.
Observed(w, page, thinking, primaryOk) ==
    LET candidate == ExtractLatestText(page, w.known_hashes, primaryOk)
    IN  IF thinking = "visible"
        THEN [w EXCEPT !.skipped = TRUE, !.candidate = {}, !.fresh = {}]
        ELSE [w EXCEPT !.skipped = FALSE,
                       !.candidate = candidate,
                       !.fresh = FirstUnknown(page, w.known_hashes),
                       !.sighted = candidate,
                       !.sightings = IF candidate = {} THEN 0
                                     ELSE IF candidate = w.sighted THEN @ + 1 ELSE 1]

\* A turn of the loop that starts the count again when the thinking
\* indicator is visible.
PollOnceRestarting(w, page, thinking, primaryOk) ==
    LET w1 == [w EXCEPT !.poll_count = @ + 1]
        candidate == ExtractLatestText(page, w.known_hashes, primaryOk)
        normalized == Strip(Val(candidate))
    IN  IF thinking = "visible"
        THEN [w1 EXCEPT !.stable_count = 0, !.last_candidate = {}]
        ELSE IF candidate = {} \/ normalized = <<>>
        THEN w1
        ELSE IF Lower(normalized) = SanitizedQuestion(w.question)
        THEN [w1 EXCEPT !.known_hashes = @ \cup {HashString(normalized)}]
        ELSE LET w2 == IF {normalized} = w.last_candidate
                       THEN [w1 EXCEPT !.stable_count = @ + 1]
                       ELSE [w1 EXCEPT !.stable_count = 1,
                                       !.last_candidate = {normalized}]
             IN  IF IsStable(w2.stable_count)
                 THEN [w2 EXCEPT !.pc = "done", !.result = {normalized}]
                 ELSE w2

\* One turn of the loop of wait_for_latest_answer on the page as it is now.
\* thinking: div.thinking-message is not there or hidden, is visible, or the
\* query for it raised.
PollOnce(w, page, thinking, primaryOk) ==
    LET w1 == [w EXCEPT !.poll_count = @ + 1]
        candidate == ExtractLatestText(page, w.known_hashes, primaryOk)
        normalized == Strip(Val(candidate))
    IN  IF thinking = "visible"
        THEN w1
        ELSE IF candidate = {} \/ normalized = <<>>
        THEN w1
        ELSE IF Lower(normalized) = SanitizedQuestion(w.question)
        THEN [w1 EXCEPT !.known_hashes = @ \cup {HashString(normalized)}]
        ELSE LET w2 == IF {normalized} = w.last_candidate
                       THEN [w1 EXCEPT !.stable_count = @ + 1]
                       ELSE [w1 EXCEPT !.stable_count = 1,
                                       !.last_candidate = {normalized}]
             IN  IF IsStable(w2.stable_count)
                 THEN [w2 EXCEPT !.pc = "done", !.result = {normalized}]
                 ELSE w2

\* wait_for_latest_answer: a poll before the deadline
Poll ==
    /\ watch.pc = "poll"
    /\ watch.poll_count < MaxPolls
    /\ \E new \in SeqsUpTo(Texts, MaxNew), thinking \in {"none", "visible", "raised"},
          primaryOk \in BOOLEAN :
        LET page == watch.page0 \o new
        IN  watch' = PollOnce(Observed(Steady(watch, page, thinking), page, thinking,
                                       primaryOk),
                              page, thinking, primaryOk)
    /\ UNCHANGED <<regVars, ask, auth>>

\* wait_for_latest_answer: time.time() has reached the deadline, it returns None
Deadline ==
    /\ watch.pc = "poll"
    /\ watch' = [watch EXCEPT !.pc = "done", !.result = {}]
    /\ UNCHANGED <<regVars, ask, auth>>

\* ----------------------------------------------------- BrowserSession.ask
\* An error message is the sequence of its words, in lower case: _CLOSED_RE
\* is compiled with re.IGNORECASE.

TargetHasBeenClosed ==
    <<"target", "page", "context", "or", "browser", "has", "been", "closed">>
BrowserHasBeenClosed == <<"browser", "has", "been", "closed">>
TargetClosed == <<"target", "closed">>
TimeoutExceeded == <<"timeout", "30000ms", "exceeded">>
FailedToAuthenticate == <<"failed", "to", "authenticate", "session">>
FailedToReAuthenticate == <<"failed", "to", "re-authenticate", "session">>
NoChatInput == <<"could", "not", "find", "visible", "chat", "input", "element">>
TimeoutWaiting == <<"timeout", "waiting", "for", "response", "from", "notebooklm">>
RateLimitReached == <<"notebooklm", "rate", "limit", "reached">>

\* What an operation of the browser may raise.
BrowserErrors == {TargetHasBeenClosed, BrowserHasBeenClosed, TargetClosed, TimeoutExceeded}

\* The words of `phrase` stand in `msg` one after the other.
Contains(msg, phrase) ==
    \E i \in 1..Len(msg) :
        /\ i + Len(phrase) - 1 <= Len(msg)
        /\ SubSeq(msg, i, i + Len(phrase) - 1) = phrase

\* "first .* last": first, a blank, anything, a blank, last
Spans(msg, first, last) ==
    \E i \in 1..Len(msg), j \in 1..Len(msg) :
        i + 2 <= j /\ msg[i] = first /\ msg[j] = last

\* _CLOSED_RE.search(msg)
ClosedRe(msg) ==
    \/ Contains(msg, <<"has", "been", "closed">>)
    \/ Spans(msg, "target", "closed")
    \/ Contains(msg, <<"browser", "has", "been", "closed">>)
    \/ Spans(msg, "context", "closed")

\* ask.runs counts the calls of ask_once and ask.inits the calls of init made
\* by the `except` clause; ask.msg is str(e) of that clause, ask.error the
\* exception ask raised.  attempt 1 is the ask_once of the outer `try`,
\* attempt 2 the one inside the `except` clause.  ask.answered is history:
\* the calls of ask that have returned an answer to their caller since the
\* session was constructed or reset.  ask.page_no tells the page from the
\* one the session had before it: every new_page() that init keeps flips it.
\* ask.last is what the call of ask before this one raised.
\* human_type has not been called.  Of a call: fills, the values that
\* page.fill was given, in their order; typos, the places in fills of the
\* values that end in the character of _random_char.
NoTyping == [pc |-> "idle", text |-> <<>>, with_typos |-> FALSE, human |-> FALSE,
             current_text |-> <<>>, i |-> 0, fills |-> <<>>, typos |-> {}]

NoAsk == [pc |-> "idle", attempt |-> 0, runs |-> 0, inits |-> 0, msg |-> {},
          error |-> {}, initialized |-> FALSE, page |-> "none", message_count |-> 0,
          answered |-> 0, page_no |-> 0, last |-> {}, before |-> 0, result |-> {},
          typing |-> NoTyping]

\* handle_ask_question, its `except Exception as e` clause: the result for
\* an exception with message msg.  The message of RateLimitError holds the
\* words "rate limit", as the clause tests besides the exception's class.
RateLimitGuidance ==
    <<"you", "can:", "use", "the", "re_auth", "tool", "wait", "until", "tomorrow",
      "upgrade">>

IsRateLimit(msg) == Contains(msg, <<"rate", "limit">>)

\* A failure result with the message and nothing else.
PlainFailure(msg) == [success |-> FALSE, error |-> msg]

AskQuestionFailure(msg) ==
    IF IsRateLimit(msg)
    THEN [success |-> FALSE,
          error   |-> RateLimitReached \o RateLimitGuidance \o <<"original", "error:">>
                          \o msg]
    ELSE [success |-> FALSE, error |-> msg]

\* init has returned: the session has a new page and is initialized
Initialized(a) == [a EXCEPT !.initialized = TRUE, !.page = "open", !.page_no = 1 - @]

\* Recovery from whatever the outer `try` raised.
RecoversFromAnyError(attempt, msg) == attempt = 1

\* An exception raised inside the outer `try` is handled by recovery when
\* its message is one of a closed page or context; one raised inside the
\* `except` clause is raised again.
Recovers(attempt, msg) == attempt = 1 /\ ClosedRe(msg)

\* An ask that counts as a message although it raised.
RaiseCounted(a, m) ==
    IF Recovers(a.attempt, m)
    THEN [a EXCEPT !.pc = "recover", !.msg = {m}, !.initialized = FALSE]
    ELSE [a EXCEPT !.pc = "raised", !.error = {m},
                   !.msg = IF a.attempt = 1 THEN {m} ELSE @,
                   !.message_count = @ + 1]

\* An ask that gives up its page whenever it fails.
RaiseClosing(a, m) ==
    IF Recovers(a.attempt, m)
    THEN [a EXCEPT !.pc = "recover", !.msg = {m}, !.initialized = FALSE]
    ELSE [a EXCEPT !.pc = "raised", !.error = {m},
                   !.msg = IF a.attempt = 1 THEN {m} ELSE @,
                   !.initialized = FALSE, !.page = "none"]

\* ask: `except Exception as e` for an exception with message m
Raise(a, m) ==
    IF Recovers(a.attempt, m)
    THEN [a EXCEPT !.pc = "recover", !.msg = {m}, !.initialized = FALSE]
    ELSE [a EXCEPT !.pc = "raised", !.error = {m},
                   !.msg = IF a.attempt = 1 THEN {m} ELSE @]

\* BrowserSession.init as ask sees it: it ends initialized with a page, or
\* it raises and leaves no page.
InitErrors == BrowserErrors \cup {FailedToAuthenticate, NoChatInput}

\* _page_is_closed
PageIsClosed(a) == a.page # "open"

\* ask is called on a session
AskBegin ==
    /\ ask.pc = "idle"
    /\ ask.message_count < MaxMessages
    /\ ask' = [ask EXCEPT !.pc = "ensure", !.attempt = 1, !.runs = 1, !.inits = 0,
                          !.msg = {}, !.error = {}, !.result = {}]
    /\ UNCHANGED <<regVars, watch, auth>>

\* ask_once: `if not self._initialized or self._page_is_closed(): await self.init()`
\* (init returns at once on an initialized session, whatever its page)
AskOnceEnsure ==
    /\ ask.pc = "ensure"
    /\ IF ~ask.initialized
       THEN \/ ask' = [Initialized(ask) EXCEPT !.pc = "auth"]
            \/ \E m \in InitErrors :
                   ask' = Raise([ask EXCEPT !.page = "none"], m)
       ELSE ask' = [ask EXCEPT !.pc = "auth"]
    /\ UNCHANGED <<regVars, watch, auth>>

\* ask_once: validate_cookies_expiry and _ensure_authenticated
AskOnceAuthenticate ==
    /\ ask.pc = "auth"
    /\ \/ ask' = [ask EXCEPT !.pc = "type"]
       \/ \E m \in BrowserErrors \cup {FailedToReAuthenticate} : ask' = Raise(ask, m)
    /\ UNCHANGED <<regVars, watch, auth>>

\* ask_once: the snapshot, _find_chat_input, human_type and the Enter key.
\* On a closed page the snapshot is empty and _find_chat_input returns None.
AskOnceSubmit ==
    /\ ask.pc = "type"
    /\ \/ /\ ~PageIsClosed(ask)
          /\ ask' = [ask EXCEPT !.pc = "wait"]
       \/ \E m \in IF PageIsClosed(ask) THEN {NoChatInput}
                                        ELSE BrowserErrors \cup {NoChatInput} :
              ask' = Raise(ask, m)
    /\ UNCHANGED <<regVars, watch, auth>>

\* ask_once: wait_for_latest_answer, _detect_rate_limit and the return
AskOnceAnswer ==
    /\ ask.pc = "wait"
    /\ \/ /\ ~PageIsClosed(ask)
          /\ ask' = [ask EXCEPT !.pc = "returned", !.message_count = @ + 1]
       \/ \E m \in {TimeoutWaiting, RateLimitReached} : ask' = Raise(ask, m)
    /\ UNCHANGED <<regVars, watch, auth>>

\* ask, the `except` clause: the page is closed, init is awaited, and
\* ask_once is called again; it finds the session initialized
AskRecover ==
    /\ ask.pc = "recover"
    /\ LET a == [ask EXCEPT !.attempt = 2, !.inits = @ + 1, !.page = "none"]
       IN  \/ ask' = [Initialized(a) EXCEPT !.pc = "auth", !.runs = @ + 1]
           \/ \E m \in InitErrors : ask' = Raise(a, m)
    /\ UNCHANGED <<regVars, watch, auth>>

\* ask has returned or raised, and handle_ask_question returns its result;
\* the session is there for the next call
AskEnd ==
    /\ ask.pc \in {"returned", "raised"}
    /\ ask' = [ask EXCEPT !.pc = "idle", !.attempt = 0,
                          !.answered = IF ask.pc = "returned" THEN @ + 1 ELSE @,
                          !.last = IF ask.pc = "returned" THEN {} ELSE ask.error,
                          !.result = IF ask.pc = "returned"
                                     THEN {[success |-> TRUE]}
                                     ELSE {AskQuestionFailure(Val(ask.error))}]
    /\ UNCHANGED <<regVars, watch, auth>>

\* A handler that lets the exception of its session leave it.
SessionToolRaises(msg) == [raised |-> msg]

\* handle_close_session and handle_reset_session: `except Exception as e`
SessionToolFailure(msg) == [success |-> FALSE, error |-> msg]

\* call_tool: the result of _dispatch, or the failure made of what it raised
CallTool(result) ==
    IF "raised" \in DOMAIN result
    THEN [success |-> FALSE, error |-> result.raised]
    ELSE result

\* reset is called on a session, between two asks
ResetBegin ==
    /\ ask.pc = "idle"
    /\ ask' = [ask EXCEPT !.pc = "reset", !.attempt = 1, !.runs = 1, !.inits = 0,
                          !.msg = {}, !.error = {}, !.before = ask.message_count,
                          !.result = {}]
    /\ UNCHANGED <<regVars, watch, auth>>

\* An exception that reset raised although message_count was set to 0.
ResetRaiseZeroed(a, m) ==
    IF Recovers(a.attempt, m)
    THEN [a EXCEPT !.pc = "reset_recover", !.msg = {m}, !.initialized = FALSE]
    ELSE [a EXCEPT !.pc = "reset_raised", !.error = {m},
                   !.msg = IF a.attempt = 1 THEN {m} ELSE @,
                   !.message_count = 0]

\* reset: `except Exception as e` for an exception with message m; one
\* raised by the recovery leaves reset
ResetRaise(a, m) ==
    IF Recovers(a.attempt, m)
    THEN [a EXCEPT !.pc = "reset_recover", !.msg = {m}, !.initialized = FALSE]
    ELSE [a EXCEPT !.pc = "reset_raised", !.error = {m},
                   !.msg = IF a.attempt = 1 THEN {m} ELSE @]

\* reset_once: init when the session is not initialized (init returns at
\* once on an initialized session, whatever its page), then the reload,
\* _wait_for_ready and `self.message_count = 0`.  The reload of a closed
\* page raises.
ResetOnce ==
    /\ ask.pc = "reset"
    /\ \/ /\ ~ask.initialized
          /\ \E m \in InitErrors : ask' = ResetRaise([ask EXCEPT !.page = "none"], m)
       \/ LET a == IF ask.initialized THEN ask ELSE Initialized(ask)
          IN  \/ /\ ~PageIsClosed(a)
                 /\ ask' = [a EXCEPT !.pc = "reset_returned", !.message_count = 0,
                                     !.answered = 0]
              \/ \E m \in IF PageIsClosed(a) THEN BrowserErrors \ {TimeoutExceeded}
                                             ELSE BrowserErrors \cup {NoChatInput} :
                     ask' = ResetRaise(a, m)
    /\ UNCHANGED <<regVars, watch, auth>>

\* reset, the `except` clause: the page is closed, init is awaited, and
\* reset_once is called again
ResetRecover ==
    /\ ask.pc = "reset_recover"
    /\ LET a == [ask EXCEPT !.attempt = 2, !.inits = @ + 1, !.page = "none"]
       IN  \/ ask' = [Initialized(a) EXCEPT !.pc = "reset", !.runs = @ + 1]
           \/ \E m \in InitErrors : ask' = ResetRaise(a, m)
    /\ UNCHANGED <<regVars, watch, auth>>

\* reset has returned or raised, and handle_reset_session returns its
\* result; the session is there for the next call
ResetEnd ==
    /\ ask.pc \in {"reset_returned", "reset_raised"}
    /\ ask' = [ask EXCEPT !.pc = "idle", !.attempt = 0, !.before = 0,
                          !.last = IF ask.pc = "reset_returned" THEN {} ELSE ask.error,
                          !.result = IF ask.pc = "reset_returned"
                                     THEN {[success |-> TRUE]}
                                     ELSE {SessionToolFailure(Val(ask.error))}]
    /\ UNCHANGED <<regVars, watch, auth>>

\* A tool call that ends with no session at hand: get_or_create_session
\* raises for a target that is no absolute URL, or the id given to
\* close_session or reset_session is not registered.
EndsWithoutSession ==
    /\ ask.pc = "idle"
    /\ \E tool \in {"ask_question", "close_session", "reset_session"} :
           LET msg == <<"notebook", "url", "must", "be", "an", "absolute", "url">>
           IN  ask' = [ask EXCEPT
                   !.last = IF tool = "ask_question" THEN {msg} ELSE {},
                   !.result = IF tool = "ask_question"
                              THEN {AskQuestionFailure(msg)}
                              ELSE {[success |-> FALSE,
                                     error |-> <<"session", "not", "found">>]}]
    /\ UNCHANGED <<regVars, watch, auth>>

\* close_session on the session: its page is closed and the registry
\* forgets it; the next ask with its id constructs a session.
CloseSessionTool ==
    /\ ask.pc = "idle"
    /\ ask' = [NoAsk EXCEPT !.page_no = ask.page_no, !.result = {[success |-> TRUE]}]
    /\ UNCHANGED <<regVars, watch, auth>>

\* The page of the session is closed from outside (its context died).
PageClosedExternally ==
    /\ ask.page = "open"
    /\ ask' = [ask EXCEPT !.page = "closed"]
    /\ UNCHANGED <<regVars, watch, auth>>

\* ------------------------------------------------------------ AuthManager

\* CRITICAL_COOKIE_NAMES, two of them, and a cookie that is not critical
CRITICAL_COOKIE_NAMES == {"SID", "__Secure-1PSID"}

\* A cookie as context.cookies() gives it: `expires` is -1 for a session
\* cookie and the time of expiry otherwise; a cookie may come without the
\* key, or with None for it.
Cookies ==
    LET names == CRITICAL_COOKIE_NAMES \cup {"NID"}
    IN  [name : names]
            \cup [name : names, expires : {None} \cup {{t} : t \in -1..MaxTime}]

RECURSIVE CookieLists(_)
CookieLists(n) ==
    IF n = 0
    THEN {<<>>}
    ELSE CookieLists(n - 1)
             \cup {Append(l, c) : l \in {k \in CookieLists(n - 1) : Len(k) = n - 1},
                                  c \in Cookies}

\* c.get("expires", -1)
GetExpires(c) == IF "expires" \in DOMAIN c THEN c.expires ELSE {-1}

\* A cookie is expired as soon as its time is reached.
ExpiredAtNow(c, current_time) ==
    LET expires == GetExpires(c)
    IN  expires # None /\ Val(expires) # -1 /\ Val(expires) <= current_time

\* `expires is not None and expires != -1 and expires < current_time`
Expired(c, current_time) ==
    LET expires == GetExpires(c)
    IN  expires # None /\ Val(expires) # -1 /\ Val(expires) < current_time

\* validate_cookies_expiry; raises: context.cookies() raised, and the
\* `except Exception` clause returns False
ValidateCookiesExpiry(cookies, current_time, raises) ==
    IF raises THEN "False"
    ELSE IF cookies = <<>> THEN "False"
    ELSE LET critical == SelectSeq(cookies,
                                   LAMBDA c : c.name \in CRITICAL_COOKIE_NAMES)
             expired == SelectSeq(critical, LAMBDA c : Expired(c, current_time))
         IN  IF critical = <<>> THEN "False"
             ELSE IF expired # <<>> THEN "False"
             ELSE "True"

\* max_attempts of perform_login
max_attempts == 600

\* No login is on its way.  Time is counted in half seconds from the call of
\* the login; polls counts the looks at the password field or at the URL,
\* url is what the last look at the URL found, early that a progress
\* message of the wait came less than 10 elapsed seconds after the one
\* before it.
NoLogin == [op |-> "", pc |-> "idle", now |-> 0, deadline |-> 0, end |-> 0,
            chooser |-> FALSE, identifier |-> FALSE, password |-> FALSE,
            polls |-> 0, attempt |-> 0, progress |-> FALSE, last_progress |-> 0,
            early |-> FALSE, url |-> "", result |-> ""]

\* No init has run.  Of the last init: session, the object it ran on;
\* steps, the calls it made on the page and on the AuthManager after it
\* opened the page, in their order; valid, what the validations of the
\* cookies would answer (init's, _ensure_authenticated's first, the one after
\* the load); state, that get_valid_state_path returns a path; auto,
\* CONFIG.autoLoginEnabled; ok, that init returned; left, the session as init
\* left it.
NoInit == [session |-> 0, steps |-> <<>>, valid |-> <<>>, state |-> FALSE,
           auto |-> FALSE, ok |-> FALSE, left |-> NoSession]

NoAuth == [cookies |-> <<>>, now |-> 1, raises |-> FALSE, result |-> "",
           login |-> NoLogin, init |-> NoInit]

\* The context holds some cookies at some time, or it is closed.
ContextCookies ==
    /\ auth = NoAuth
    /\ \E cookies \in CookieLists(MaxCookies), now \in 1..MaxTime, raises \in BOOLEAN :
           auth' = [NoAuth EXCEPT !.cookies = cookies, !.now = now, !.raises = raises]
    /\ UNCHANGED <<regVars, ask, watch>>

\* validate_cookies_expiry is called
ValidateCookies ==
    /\ auth.result = ""
    /\ auth' = [auth EXCEPT !.result =
                                ValidateCookiesExpiry(auth.cookies, auth.now, auth.raises)]
    /\ UNCHANGED <<regVars, ask, watch>>

\* validate_cookies_expiry has returned, and its locals are gone
ValidateCookiesReturns ==
    /\ auth.result # ""
    /\ auth' = NoAuth
    /\ UNCHANGED <<regVars, ask, watch>>

\* login_with_credentials: the goto, `deadline`, and the call of
\* _wait_for_notebook with its own `end`, a time.time() later
LoginWithCredentials ==
    /\ auth.login.pc \in {"idle", "returned"}
    /\ \E later \in 0..1 :
           auth' = [auth EXCEPT !.login =
                       [NoLogin EXCEPT !.op = "credentials", !.pc = "wait_for_notebook",
                                       !.deadline = LoginTimeout, !.now = later,
                                       !.end = later + LoginTimeout]]
    /\ UNCHANGED <<regVars, ask, watch>>

\* _wait_for_notebook, one turn of its loop, and what login_with_credentials
\* does with its result.  A page.url that raises counts as not on the target.
WaitForNotebook ==
    /\ auth.login.pc = "wait_for_notebook"
    /\ LET l == auth.login
       IN  IF l.now < l.end
           THEN \/ auth' = [auth EXCEPT !.login =
                               [l EXCEPT !.pc = "returned", !.url = "target",
                                         !.result = "True"]]
                \/ auth' = [auth EXCEPT !.login = [l EXCEPT !.now = @ + 2, !.url = "other"]]
           ELSE auth' = [auth EXCEPT !.login =
                            [l EXCEPT !.pc = IF l.chooser THEN "identifier" ELSE "chooser"]]
    /\ UNCHANGED <<regVars, ask, watch>>

\* _handle_account_chooser: an entry for the email is clicked, and
\* _wait_for_notebook is called again, or there is none
HandleAccountChooser ==
    /\ auth.login.pc = "chooser"
    /\ LET l == auth.login
       IN  \/ auth' = [auth EXCEPT !.login =
                           [l EXCEPT !.pc = "wait_for_notebook", !.chooser = TRUE,
                                     !.now = @ + 1, !.end = l.now + 1 + LoginTimeout]]
           \/ auth' = [auth EXCEPT !.login = [l EXCEPT !.pc = "identifier"]]
    /\ UNCHANGED <<regVars, ask, watch>>

\* _fill_identifier, whose result is not looked at
FillIdentifier ==
    /\ auth.login.pc = "identifier"
    /\ \E filled \in BOOLEAN :
           auth' = [auth EXCEPT !.login.pc = "password", !.login.identifier = filled]
    /\ UNCHANGED <<regVars, ask, watch>>

\* login_with_credentials, one turn of `while time.time() < deadline`:
\* _fill_password finds the field and fills it, or the page is a challenge
\* page, or the loop sleeps
FillPassword ==
    /\ auth.login.pc = "password"
    /\ LET l == auth.login
       IN  IF l.now < l.deadline
           THEN \/ auth' = [auth EXCEPT !.login =
                               [l EXCEPT !.pc = "redirect", !.polls = @ + 1,
                                         !.password = TRUE]]
                \/ auth' = [auth EXCEPT !.login =
                               [l EXCEPT !.pc = "returned", !.polls = @ + 1,
                                         !.url = "challenge", !.result = "False"]]
                \/ auth' = [auth EXCEPT !.login = [l EXCEPT !.polls = @ + 1, !.now = @ + 1]]
           ELSE auth' = [auth EXCEPT !.login.pc = "redirect"]
    /\ UNCHANGED <<regVars, ask, watch>>

\* _wait_for_redirect, one turn of its loop; the page goes to the target
\* only when the password has been given
WaitForRedirect ==
    /\ auth.login.pc = "redirect"
    /\ LET l == auth.login
       IN  IF l.now < l.deadline
           THEN \/ /\ l.password
                   /\ auth' = [auth EXCEPT !.login =
                                  [l EXCEPT !.pc = "returned", !.url = "target",
                                            !.result = "True"]]
                \/ auth' = [auth EXCEPT !.login = [l EXCEPT !.now = @ + 1, !.url = "other"]]
           ELSE auth' = [auth EXCEPT !.login.pc = "returned", !.login.result = "False"]
    /\ UNCHANGED <<regVars, ask, watch>>

\* perform_login is called, with a send_progress or with none; its goto
\* raises, and perform_login returns False, or the loop starts
PerformLogin ==
    /\ auth.login.pc \in {"idle", "returned"}
    /\ \E progress \in BOOLEAN :
           \/ auth' = [auth EXCEPT !.login =
                           [NoLogin EXCEPT !.op = "manual", !.pc = "poll_url",
                                           !.progress = progress]]
           \/ auth' = [auth EXCEPT !.login =
                           [NoLogin EXCEPT !.op = "manual", !.pc = "returned",
                                           !.progress = progress, !.result = "False"]]
    /\ UNCHANGED <<regVars, ask, watch>>

\* A wait that sends a progress message at every poll.
PollUrlWithProgress ==
    /\ auth.login.pc = "poll_url"
    /\ LET l == auth.login
           elapsed == l.attempt
           beat == l.progress /\ elapsed - l.last_progress >= 1
           l1 == IF beat
                 THEN [l EXCEPT !.last_progress = elapsed,
                                !.early = @ \/ elapsed - l.last_progress < 10]
                 ELSE l
       IN  IF l.attempt < max_attempts
           THEN \/ auth' = [auth EXCEPT !.login =
                               [l1 EXCEPT !.pc = "returned", !.polls = @ + 1,
                                          !.url = "target", !.result = "True"]]
                \/ auth' = [auth EXCEPT !.login =
                               [l1 EXCEPT !.attempt = @ + 1, !.polls = @ + 1,
                                          !.url = "other"]]
                \/ auth' = [auth EXCEPT !.login =
                               [l EXCEPT !.attempt = @ + 1, !.polls = @ + 1,
                                         !.url = "raised"]]
           ELSE auth' = [auth EXCEPT !.login.pc = "final_check"]
    /\ UNCHANGED <<regVars, ask, watch>>

\* perform_login, one turn of `for attempt in range(max_attempts)`: page.url
\* is read, a progress message is sent when 10 elapsed seconds have gone by
\* since the last, and the URL is on the target, or is not, or reading it
\* raised; check_interval is one second
PollUrl ==
    /\ auth.login.pc = "poll_url"
    /\ LET l == auth.login
           elapsed == l.attempt
           beat == l.progress /\ elapsed - l.last_progress >= 10
           l1 == IF beat
                 THEN [l EXCEPT !.last_progress = elapsed,
                                !.early = @ \/ elapsed - l.last_progress < 10]
                 ELSE l
       IN  IF l.attempt < max_attempts
           THEN \/ auth' = [auth EXCEPT !.login =
                               [l1 EXCEPT !.pc = "returned", !.polls = @ + 1,
                                          !.url = "target", !.result = "True"]]
                \/ auth' = [auth EXCEPT !.login =
                               [l1 EXCEPT !.attempt = @ + 1, !.polls = @ + 1,
                                          !.url = "other"]]
                \/ auth' = [auth EXCEPT !.login =
                               [l EXCEPT !.attempt = @ + 1, !.polls = @ + 1,
                                         !.url = "raised"]]
           ELSE auth' = [auth EXCEPT !.login.pc = "final_check"]
    /\ UNCHANGED <<regVars, ask, watch>>

\* perform_login after the loop: page.url is read once more
FinalCheck ==
    /\ auth.login.pc = "final_check"
    /\ \E url \in {"target", "other", "raised"} :
           auth' = [auth EXCEPT !.login.pc = "returned", !.login.url = url,
                                !.login.polls = @ + 1,
                                !.login.result = IF url = "target" THEN "True" ELSE "False"]
    /\ UNCHANGED <<regVars, ask, watch>>

\* ------------------------------------------------ authentication in init

\* An _ensure_authenticated that logs in with the credentials whether or
\* not auto-login is enabled.
EnsureAuthenticatedAlwaysLogin(valid1, state, valid2, auto, loginOk) ==
    LET loaded == <<"validate", "state_path">>
                      \o (IF state THEN <<"load", "reload", "validate">> ELSE <<>>)
    IN  IF valid1
        THEN [ok |-> TRUE, steps |-> <<"validate">>]
        ELSE IF state /\ valid2
        THEN [ok |-> TRUE, steps |-> loaded]
        ELSE [ok |-> loginOk,
              steps |-> loaded \o <<"login">> \o (IF loginOk THEN <<"goto">> ELSE <<>>)]

\* _ensure_authenticated
EnsureAuthenticated(valid1, state, valid2, auto, loginOk) ==
    LET loaded == <<"validate", "state_path">>
                      \o (IF state THEN <<"load", "reload", "validate">> ELSE <<>>)
    IN  IF valid1
        THEN [ok |-> TRUE, steps |-> <<"validate">>]
        ELSE IF state /\ valid2
        THEN [ok |-> TRUE, steps |-> loaded]
        ELSE IF auto
        THEN [ok |-> loginOk,
              steps |-> loaded \o <<"login">> \o (IF loginOk THEN <<"goto">> ELSE <<>>)]
        ELSE [ok |-> FALSE, steps |-> loaded]

\* init from page.goto on: the cookies are validated, an unauthenticated
\* session is authenticated, and the chat input is waited for; readyOk =
\* FALSE: _wait_for_ready raised.
InitAuthenticates(valid, state, auto, loginOk, readyOk) ==
    LET e == IF valid[1]
             THEN [ok |-> TRUE, steps |-> <<>>]
             ELSE EnsureAuthenticated(valid[2], state, valid[3], auto, loginOk)
    IN  [ok    |-> e.ok /\ readyOk,
         steps |-> <<"goto", "validate">> \o e.steps
                       \o (IF e.ok THEN <<"session_storage", "wait_for_ready">> ELSE <<>>)]

\* get_or_create_session: the session is initialized and registered, with
\* the authentication of init taken call by call.
InitRegisterAuth(c, faults) ==
    /\ ~shutdown
    /\ pc[c] = "init"
    /\ \E closing \in Closings(faults), launchOk \in Outcomes(faults),
          valid \in [1..3 -> BOOLEAN], state \in BOOLEAN, auto \in BOOLEAN,
          loginOk \in BOOLEAN, readyOk \in BOOLEAN :
        LET l == loc[c]
            o == l.session
            a == InitAuthenticates(valid, state, auto, loginOk, readyOk)
            g == GetOrCreateContext(Quiet(shared), None, CONFIG_headless, closing, launchOk)
            r == SessionInit(obj[o], Quiet(shared), CONFIG_headless, closing, launchOk,
                             a.ok)
            os == [PagesAfter(obj, shared, r.S) EXCEPT ![o] = r.s]
        IN  /\ shared' = r.S
            /\ auth' = [auth EXCEPT !.init =
                           [session |-> o,
                            steps   |-> IF g.ok /\ IsAbsoluteUrl(obj[o].notebook_url)
                                        THEN a.steps
                                        ELSE IF g.ok THEN <<"goto">> ELSE <<>>,
                            valid   |-> valid, state |-> state, auto |-> auto,
                            ok      |-> r.ok, left |-> r.s]]
            /\ IF r.ok
               THEN Goto(c, l, "ask", CONFIG_headless, Put(sessions, l.session_id, o), os)
               ELSE Return(c, l, sessions, os)
    /\ done' = Did("", Outcome(pc'[c], "created", "Exception"), {})
    /\ UNCHANGED <<cleanup_task, sweep, shutdown>>
    /\ UNCHANGED <<ask, watch, max_sessions>>

\* ------------------------------------------------------------ human_type

\* The characters of the texts typed, and those _random_char draws from.
TypedChars == {"q", "t", " "}
RandomChars == {"q", "t"}

\* human_type is called: without stealth or human typing the text is
\* filled in at once; else the field is emptied and clicked.
HumanType ==
    /\ ask.typing.pc = "idle"
    /\ \E text \in SeqsUpTo(TypedChars, MaxText), with_typos \in BOOLEAN, human \in BOOLEAN :
           ask' = [ask EXCEPT !.typing =
                      [NoTyping EXCEPT !.pc = IF human THEN "loop" ELSE "returned",
                                       !.text = text, !.with_typos = with_typos,
                                       !.human = human,
                                       !.fills = IF human THEN << <<>> >> ELSE <<text>>]]
    /\ UNCHANGED <<regVars, watch, auth>>

\* One turn of the loop, with a wrong character whatever the place in the text.
TypeCharTypoAnywhere ==
    /\ ask.typing.pc = "loop"
    /\ ask.typing.i < Len(ask.typing.text)
    /\ \E typo \in BOOLEAN, wrong_char \in RandomChars :
        LET t == ask.typing
            char == t.text[t.i + 1]
            wrong == IF t.with_typos /\ typo
                     THEN <<Append(t.current_text, wrong_char), t.current_text>>
                     ELSE <<>>
            current_text == Append(t.current_text, char)
        IN  ask' = [ask EXCEPT !.typing =
                       [t EXCEPT !.current_text = current_text,
                                 !.i = t.i + 1,
                                 !.fills = t.fills \o wrong \o <<current_text>>,
                                 !.typos = IF wrong = <<>> THEN t.typos
                                           ELSE t.typos \cup {Len(t.fills) + 1}]]
    /\ UNCHANGED <<regVars, watch, auth>>

\* One turn of the loop `while i < len(text)`; typo: random.random() < 0.003
TypeChar ==
    /\ ask.typing.pc = "loop"
    /\ ask.typing.i < Len(ask.typing.text)
    /\ \E typo \in BOOLEAN, wrong_char \in RandomChars :
        LET t == ask.typing
            char == t.text[t.i + 1]
            wrong == IF t.with_typos /\ typo /\ t.i > 0
                     THEN <<Append(t.current_text, wrong_char), t.current_text>>
                     ELSE <<>>
            current_text == Append(t.current_text, char)
        IN  ask' = [ask EXCEPT !.typing =
                       [t EXCEPT !.current_text = current_text,
                                 !.i = t.i + 1,
                                 !.fills = t.fills \o wrong \o <<current_text>>,
                                 !.typos = IF wrong = <<>> THEN t.typos
                                           ELSE t.typos \cup {Len(t.fills) + 1}]]
    /\ UNCHANGED <<regVars, watch, auth>>

\* The loop ends and human_type returns.
TypeReturns ==
    /\ ask.typing.pc = "loop"
    /\ ask.typing.i >= Len(ask.typing.text)
    /\ ask' = [ask EXCEPT !.typing.pc = "returned"]
    /\ UNCHANGED <<regVars, watch, auth>>

\* The next call of human_type starts with an empty record.
TypeAgain ==
    /\ ask.typing.pc = "returned"
    /\ ask' = [ask EXCEPT !.typing = NoTyping]
    /\ UNCHANGED <<regVars, watch, auth>>

\* SessionManager.__init__, SharedContextManager.__init__, build_config with
\* MAX_SESSIONS = capacity
Start(capacity) ==
    /\ max_sessions = capacity
    /\ done = NoDone
    /\ sessions = <<>>
    /\ obj = [o \in Objs |-> NoSession]
    /\ shared = [context |-> 0, current_headless |-> None,
                 live |-> {}, mode |-> [g \in Ctxs |-> TRUE], ops |-> {}]
    /\ cleanup_task = TRUE
    /\ sweep = [pc |-> "sleep", inactive |-> <<>>]
    /\ CONFIG_headless = TRUE
    /\ shutdown = FALSE
    /\ pc = [c \in Callers |-> "idle"]
    /\ loc = [c \in Callers |-> NoLocals]
    /\ ask = NoAsk
    /\ watch = NoWatch
    /\ auth = NoAuth

Init == Start(MaxSessions)

\* MAX_SESSIONS may be any integer
InitAnyCapacity == \E capacity \in -1..MaxSessions : Start(capacity)

\* The steps of an ask_question call after its first.
AskSteps(c, faults) ==
    \/ CloseAllPop(c, faults)
    \/ CloseAllContext(c, faults)
    \/ Replace(c, faults)
    \/ Evict(c, faults)
    \/ Acquire(c, faults)
    \/ InitRegister(c, faults)
    \/ AskReturns(c, faults)

Environment ==
    \/ Forget
    \/ SweepPop(TRUE)
    \/ ContextClosedExternally
    \/ Tick

\* ------------------------------------- get_or_create_context, step by step

\* The calls of get_or_create_context and close_context on the shared
\* manager, taken one await at a time.  A call's locals are its override,
\* the context object whose cookies() it awaits, and the should_be_headless
\* it computed before it launched.

\* get_or_create_context from `if await self._needs_recreation()` to the
\* await it stops at: cookies() of the current context, or, with no context,
\* the start of the driver and the launch in _recreate_context.
AwaitContext(c, l, S) ==
    /\ shared' = S
    /\ IF S.context = 0
       THEN /\ pc' = [pc EXCEPT ![c] = "ctx_launch"]
            /\ loc' = [loc EXCEPT ![c] =
                          [l EXCEPT !.should_be_headless =
                                        IF l.override_headless # None
                                        THEN ~Val(l.override_headless)
                                        ELSE CONFIG_headless]]
       ELSE /\ pc' = [pc EXCEPT ![c] = "ctx_probe"]
            /\ loc' = [loc EXCEPT ![c] = [l EXCEPT !.context = S.context]]

ContextReturns(c, S) ==
    /\ shared' = S
    /\ pc' = [pc EXCEPT ![c] = "idle"]
    /\ loc' = [loc EXCEPT ![c] = NoLocals]

\* get_or_create_context is called
GetContextBegin(c) ==
    /\ pc[c] = "idle"
    /\ \E override_headless \in OptBool :
        LET l == [NoLocals EXCEPT !.op = "context",
                                  !.override_headless = override_headless]
        IN  IF NeedsHeadlessModeChange(shared, override_headless, CONFIG_headless)
            THEN /\ shared' = Quiet(shared)
                 /\ pc' = [pc EXCEPT ![c] = "ctx_close"]
                 /\ loc' = [loc EXCEPT ![c] = l]
            ELSE AwaitContext(c, l, Quiet(shared))
    /\ UNCHANGED <<sessions, obj, cleanup_task, sweep, CONFIG_headless, shutdown, done>>
    /\ UNCHANGED <<ask, watch, auth, max_sessions>>

\* get_or_create_context: the close_context it awaited has returned
GetContextClosed(c) ==
    /\ pc[c] = "ctx_close"
    /\ \E closing \in Closings(TRUE) :
        AwaitContext(c, loc[c], CloseContext(Quiet(shared), closing))
    /\ UNCHANGED <<sessions, obj, cleanup_task, sweep, CONFIG_headless, shutdown, done>>
    /\ UNCHANGED <<ask, watch, auth, max_sessions>>

\* _needs_recreation: cookies() has returned, and self._context is returned;
\* or it has raised, the fields are cleared and _recreate_context launches
GetContextProbed(c) ==
    /\ pc[c] = "ctx_probe"
    /\ IF loc[c].context \in shared.live
       THEN ContextReturns(c, Quiet(shared))
       ELSE AwaitContext(c, loc[c], [Quiet(shared) EXCEPT !.context = 0,
                                                          !.current_headless = None])
    /\ UNCHANGED <<sessions, obj, cleanup_task, sweep, CONFIG_headless, shutdown, done>>
    /\ UNCHANGED <<ask, watch, auth, max_sessions>>

\* _recreate_context: launch_persistent_context has returned, for the base
\* profile or, when that one is in use, for an isolated one, and
\* self._context is set; or it has raised.  state_path: there is a saved
\* auth state, which load_auth_state is awaited for.
GetContextLaunched(c) ==
    /\ pc[c] = "ctx_launch"
    /\ \E launchOk \in BOOLEAN, state_path \in BOOLEAN :
        IF launchOk /\ FreeCtxs(shared) # {}
        THEN LET g == CHOOSE x \in FreeCtxs(shared) : \A y \in FreeCtxs(shared) : x <= y
                 S == [Quiet(shared) EXCEPT !.live = @ \cup {g},
                                            !.mode[g] = loc[c].should_be_headless,
                                            !.ops = {"launch"},
                                            !.context = g]
             IN  IF state_path
                 THEN /\ shared' = S
                      /\ pc' = [pc EXCEPT ![c] = "ctx_load"]
                      /\ UNCHANGED loc
                 ELSE ContextReturns(c, [S EXCEPT !.current_headless =
                                                      Some(loc[c].should_be_headless)])
        ELSE ContextReturns(c, Quiet(shared))
    /\ UNCHANGED <<sessions, obj, cleanup_task, sweep, CONFIG_headless, shutdown, done>>
    /\ UNCHANGED <<ask, watch, auth, max_sessions>>

\* _recreate_context: load_auth_state, which raises nothing, has returned and
\* _current_headless is set.  validate_cookies_expiry changes nothing.
GetContextLoaded(c) ==
    /\ pc[c] = "ctx_load"
    /\ ContextReturns(c, [Quiet(shared) EXCEPT !.current_headless =
                                                  Some(loc[c].should_be_headless)])
    /\ UNCHANGED <<sessions, obj, cleanup_task, sweep, CONFIG_headless, shutdown, done>>
    /\ UNCHANGED <<ask, watch, auth, max_sessions>>

\* close_context is called, as close_all_sessions does
CloseContextCall(c) ==
    /\ pc[c] = "idle"
    /\ \E closing \in Closings(TRUE) : shared' = CloseContext(Quiet(shared), closing)
    /\ UNCHANGED <<sessions, obj, cleanup_task, sweep, CONFIG_headless, shutdown, done>>
    /\ UNCHANGED <<pc, loc, ask, watch, auth, max_sessions>>

\* get_or_create_context is called and runs to its end.  The step is
\* labelled with what it found ("mode_change", "probe_failed") and with its
\* launches.
GetOrCreateContextCall ==
    /\ ~shutdown
    /\ \E override_headless \in OptBool, closing \in Closings(TRUE),
          strategy \in {"single", "auto", "isolated"},
          first \in {"ok", "singleton", "other"}, second \in {"ok", "failed"} :
        LET S0 == Quiet(shared)
            change == NeedsHeadlessModeChange(S0, override_headless, CONFIG_headless)
            S1 == IF change THEN CloseContext(S0, closing) ELSE S0
            t == TryLaunch(strategy, first, second)
            r == GetOrCreateContext(S0, override_headless, CONFIG_headless, closing, t.ok)
            S == [r.S EXCEPT !.ops = @ \cup {"call"}
                                 \cup (IF change THEN {"mode_change"} ELSE {})
                                 \cup (IF ProbeFails(S1) THEN {"probe_failed"} ELSE {})
                                 \cup (IF NeedsRecreation(S1) THEN t.ops ELSE {})]
        IN  /\ shared' = S
            /\ obj' = PagesAfter(obj, shared, S)
    /\ done' = NoDone
    /\ UNCHANGED <<sessions, cleanup_task, sweep, CONFIG_headless, shutdown, pc, loc>>
    /\ UNCHANGED <<ask, watch, auth, max_sessions>>

\* Calls of the shared context manager, one after the other, on a browser
\* whose context may die.
NextLaunch ==
    \/ GetOrCreateContextCall
    \/ CloseContextCall("c1")
    \/ ContextClosedExternally

\* handle_ask_question: session.ask returns or raises, with the init that
\* ask_once ran on a session it found not initialized or without its page.
AskReturnsInit(c) ==
    /\ ~shutdown
    /\ pc[c] = "ask"
    /\ \E initOk \in BOOLEAN, askOk \in BOOLEAN :
        LET l == loc[c]
            o == l.session
            inits == ~(obj[o].initialized /\ obj[o].page = "open")
            s0 == IF inits
                  THEN [obj[o] EXCEPT !.initialized = FALSE, !.page = "none", !.pctx = 0]
                  ELSE obj[o]
            r == SessionInit(s0, Quiet(shared), CONFIG_headless, "closed", TRUE, initOk)
            s1 == IF r.ok /\ askOk THEN UpdateActivity(r.s) ELSE r.s
            os == [PagesAfter(obj, shared, r.S) EXCEPT ![o] = s1]
        IN  /\ shared' = r.S
            /\ auth' = [auth EXCEPT !.init =
                           IF inits
                           THEN [NoInit EXCEPT !.session = o, !.ok = r.ok, !.left = s1]
                           ELSE NoInit]
            /\ Return(c, l, sessions, os)
    /\ done' = Did("", "", {})
    /\ UNCHANGED <<cleanup_task, sweep, shutdown>>
    /\ UNCHANGED <<ask, watch, max_sessions>>

\* The record of a step and of the init in it is dropped before the next
\* call starts.
ForgetInit ==
    /\ done # NoDone
    /\ done' = NoDone
    /\ shared' = Quiet(shared)
    /\ auth' = [auth EXCEPT !.init = NoInit]
    /\ UNCHANGED <<sessions, obj, cleanup_task, sweep, CONFIG_headless, shutdown, pc, loc>>
    /\ UNCHANGED <<ask, watch, max_sessions>>

\* ask_question calls that do not overlap, on a browser that does not fail,
\* with the authentication of each new session taken call by call.
NextInit ==
    \/ \E c \in SeqCallers :
        \/ HandleAskQuestion(c, FALSE, FALSE)
        \/ CloseAllPop(c, FALSE)
        \/ CloseAllContext(c, FALSE)
        \/ Replace(c, FALSE)
        \/ Evict(c, FALSE)
        \/ Acquire(c, FALSE)
        \/ InitRegisterAuth(c, FALSE)
        \/ AskReturns(c, FALSE)
    \/ ForgetInit

\* ask_question calls and, at their awaits, close_session calls, on a
\* browser that does not fail.
NextInFlight ==
    \/ HandleAskQuestion("c1", TRUE, FALSE)
    \/ CloseAllPop("c1", FALSE)
    \/ CloseAllContext("c1", FALSE)
    \/ Replace("c1", FALSE)
    \/ Evict("c1", FALSE)
    \/ Acquire("c1", FALSE)
    \/ InitRegister("c1", FALSE)
    \/ AskReturnsInit("c1")
    \/ HandleCloseSession("c2", TRUE, FALSE)
    \/ ForgetInit

\* Operations that do not overlap: one runs to its end before the next starts,
\* while the browser may fail, the context may die and time passes.
NextSeq ==
    \/ \E c \in SeqCallers :
        \/ HandleAskQuestion(c, FALSE, TRUE)
        \/ HandleCloseSession(c, FALSE, TRUE)
        \/ HandleReAuth(c, FALSE, TRUE)
        \/ Shutdown(c, FALSE, TRUE)
        \/ AskSteps(c, TRUE)
        \/ ReAuthDone(c)
    \/ SweepWake(FALSE, TRUE)
    \/ Environment

\* ask_question and close_session calls that interleave at their awaits, with
\* a browser that does not fail.
Next ==
    \/ \E c \in Callers :
        \/ HandleAskQuestion(c, TRUE, FALSE)
        \/ HandleCloseSession(c, TRUE, FALSE)
        \/ AskSteps(c, FALSE)
    \/ Forget

\* One ask_once from its snapshot to the answer of wait_for_latest_answer.
NextWatch ==
    \/ AskOnceSnapshot
    \/ WaitForLatestAnswer
    \/ Poll
    \/ Deadline

\* The calls of human_type.
NextType == HumanType \/ TypeChar \/ TypeReturns \/ TypeAgain

\* The ask calls on one session.
NextAsk ==
    \/ AskBegin
    \/ AskOnceEnsure
    \/ AskOnceAuthenticate
    \/ AskOnceSubmit
    \/ AskOnceAnswer
    \/ AskRecover
    \/ AskEnd
    \/ ResetBegin
    \/ ResetOnce
    \/ ResetRecover
    \/ ResetEnd
    \/ EndsWithoutSession
    \/ CloseSessionTool
    \/ PageClosedExternally

\* The calls on the shared context manager, interleaving at their awaits.
NextCtx ==
    \/ \E c \in Callers :
        \/ GetContextBegin(c)
        \/ GetContextClosed(c)
        \/ GetContextProbed(c)
        \/ GetContextLaunched(c)
        \/ GetContextLoaded(c)
        \/ CloseContextCall(c)
    \/ ContextClosedExternally

\* The calls of validate_cookies_expiry on what the context holds.
NextCookies == ContextCookies \/ ValidateCookies \/ ValidateCookiesReturns

\* The logins of the AuthManager on a page.
NextLogin ==
    \/ LoginWithCredentials
    \/ WaitForNotebook
    \/ HandleAccountChooser
    \/ FillIdentifier
    \/ FillPassword
    \/ WaitForRedirect
    \/ PerformLogin
    \/ PollUrl
    \/ FinalCheck

\* close_session calls while an ask_question call is on its way, with a
\* browser that may fail.
NextClose ==
    \/ HandleAskQuestion("c1", TRUE, TRUE)
    \/ AskSteps("c1", TRUE)
    \/ HandleCloseSession("c2", TRUE, TRUE)
    \/ Forget

SpecLogin == Init /\ [][NextLogin]_vars

SpecLaunch == Init /\ [][NextLaunch]_vars

SpecInit == Init /\ [][NextInit]_vars

SpecType == Init /\ [][NextType]_vars

SpecInFlight == Init /\ [][NextInFlight]_vars

SpecSeq == Init /\ [][NextSeq]_vars

SpecCapacity == InitAnyCapacity /\ [][NextSeq]_vars

SpecWatch == Init /\ [][NextWatch]_vars

SpecAsk == Init /\ [][NextAsk]_vars

SpecCtx == Init /\ [][NextCtx]_vars

SpecCookies == Init /\ [][NextCookies]_vars

SpecClose == Init /\ [][NextClose]_vars

Spec == Init /\ [][Next]_vars

\* The event loop runs every task that can run: a call that has begun takes
\* its next step, and the cleanup loop, as long as it is not cancelled, wakes
\* after its sleep whenever the calls leave it a turn, and ends a pass it began.
SpecLive ==
    /\ SpecSeq
    /\ WF_vars(\E c \in SeqCallers : AskSteps(c, TRUE) \/ ReAuthDone(c))
    /\ SF_vars(SweepWake(FALSE, TRUE))
    /\ WF_vars(SweepPop(TRUE))

\* --------------------------------------------------------------- registry

\* C1: once every operation that was started has completed, and none of them
\* overlapped, the registry holds at most maxSessions sessions.
C1_RegistryWithinMaxSessions == Quiescent => Len(sessions) <= MaxSessions

\* C1 witness: the registry is full after the operations have completed.
C1_RegistryFull == Quiescent /\ Len(sessions) = MaxSessions /\ MaxSessions > 0

\* C2: with get_or_create_session calls for new ids in flight at the same
\* time, the registry never holds more than maxSessions sessions.
C2_OverlapWithinMaxSessions == Cardinality(Keys(sessions)) <= MaxSessions

\* C3: no step closes a live shared context while a session is registered.
C3_NoTeardownUnderSessions ==
    [][("close" \in shared'.ops) => sessions = <<>>]_vars

\* C4: a call that found sessions registered and asked for a headless mode
\* other than the live context's registers its new session in a registry
\* that no longer holds any of the sessions from before the call.
C4_ModeChangeClosesAllFirst ==
    [][\A c \in Callers :
          (pc[c] = "init" /\ pc'[c] = "ask" /\ loc[c].mode_change) => sessions = <<>>]_vars

\* C11: a get_or_create_session call for an id that is not registered goes on
\* to create the session without removing any when fewer than max_sessions
\* sessions are registered; otherwise it removes one session, the one created
\* first, and all the others stay registered in their order; and when the
\* close() it then awaits returns, that session is not initialized, also for
\* a call that is using it.
C11_EvictsOldestOnly ==
    [][\A c \in Callers :
          /\ (pc[c] \in {"idle", "close_context"} /\ pc'[c] = "acquire") =>
                 Len(sessions) < max_sessions /\ sessions' = sessions
          /\ (pc[c] \in {"idle", "close_context"} /\ pc'[c] = "evict") =>
                 /\ Len(sessions) >= max_sessions
                 /\ ~Has(sessions, loc'[c].session_id)
                 /\ \E i \in 1..Len(sessions) :
                       /\ \A j \in 1..Len(sessions) : sessions[i].o <= sessions[j].o
                       /\ KeyList(sessions') = KeyList(Del(sessions, sessions[i].sid))
                       /\ obj'[loc'[c].session].session_id = sessions[i].sid
          /\ (pc[c] = "evict" /\ pc'[c] = "acquire") =>
                 /\ done'.closed = {obj[loc[c].session].session_id}
                 /\ KeyList(sessions') = KeyList(sessions)
                 /\ \A d \in Callers :
                       (pc[d] = "ask" /\ loc[d].session = loc[c].session) =>
                           ~IsInitialized(obj'[loc'[d].session])]_vars

\* C11 witness: the oldest of max_sessions sessions has been removed and is
\* being closed while another call holds it for its ask.
C11_EvictedInUse ==
    \E c, d \in Callers :
        /\ pc[c] = "evict"
        /\ Len(sessions) = max_sessions - 1
        /\ max_sessions > 1
        /\ pc[d] = "ask"
        /\ loc[d].session = loc[c].session

\* C12: with max_sessions at 0 or below, no get_or_create_session call gets
\* past the capacity check: the calls for a valid URL raise the capacity
\* error, nothing is registered, no BrowserSession is constructed and the
\* shared context is neither acquired nor launched.
C12_NoCapacityNoSession ==
    max_sessions <= 0 =>
        /\ sessions = <<>>
        /\ \A o \in Objs : obj[o] = NoSession
        /\ shared.context = 0 /\ shared.live = {} /\ "launch" \notin shared.ops
        /\ \A c \in Callers : pc[c] \notin {"replace", "evict", "acquire", "init", "ask"}
        /\ done.result \in {"", "ValueError", "RuntimeError"}

\* C12 witness: a call for a valid URL has raised the capacity error.
C12_CapacityErrorOfEmpty == max_sessions <= 0 /\ done.result = "RuntimeError"

\* C13: get_or_create_session registers the session it created under the id
\* it was given or generated, an id that was not registered; and a call that
\* finds its id registered with the same URL returns the registered object
\* itself, with last_activity set to now and nothing else changed: the
\* registry, the other sessions, the pages and the shared context.
C13_GeneratedIdThenReuse ==
    [][\A c \in Callers :
          /\ done'.result = "created" /\ pc'[c] = "ask" /\ pc[c] # "ask" =>
                 /\ ~Has(sessions, loc[c].session_id)
                 /\ KeyList(sessions') = Append(KeyList(sessions), loc[c].session_id)
                 /\ At(sessions', loc[c].session_id) = loc'[c].session
                 /\ obj'[loc'[c].session].session_id = loc[c].session_id
          /\ done'.result = "reused" /\ pc'[c] = "ask" /\ pc[c] # "ask" =>
                 /\ sessions' = sessions
                 /\ loc'[c].session \in Values(sessions)
                 /\ obj' = [obj EXCEPT ![loc'[c].session].idle = 0]
                 /\ shared' = Quiet(shared)]_vars

\* C13 witness: a registered session was returned again, its idle time back
\* at zero, while another session's idle time was left as it was.
C13_ReusedAndRefreshed ==
    /\ done.result = "reused"
    /\ \E c \in Callers : pc[c] = "ask" /\ obj[loc[c].session].idle = 0
    /\ \E o \in Values(sessions) : obj[o].idle > 0

\* C14: a get_or_create_session call that finds its id registered for
\* another URL takes that session to close and delete it; when the close has
\* returned the id is no longer registered, the call no longer holds the old
\* object, and the old object is not initialized, also for a call that is
\* using it; the session constructed next is a new object for the same id
\* and the requested URL, and it is the one registered and returned, with
\* its page open.  No call is handed a session for another URL than its own.
C14_ReplacesOnUrlChange ==
    [][\A c \in Callers :
          /\ (pc'[c] = "replace" /\ pc[c] # "replace") =>
                 /\ Has(sessions', loc'[c].session_id)
                 /\ loc'[c].session = At(sessions', loc'[c].session_id)
                 /\ obj'[loc'[c].session].notebook_url # loc'[c].notebook_url
          /\ (pc[c] = "replace" /\ pc'[c] # "replace") =>
                 /\ ~Has(sessions', loc[c].session_id)
                 /\ done'.closed = {loc[c].session_id}
                 /\ loc'[c].session = 0
                 /\ \A d \in Callers :
                       (pc[d] = "ask" /\ loc[d].session = loc[c].session) =>
                           ~IsInitialized(obj'[loc'[d].session])
          /\ (pc[c] = "acquire" /\ pc'[c] = "init") =>
                 /\ obj'[loc'[c].session] =
                        NewSession(loc[c].session_id, loc[c].notebook_url)
                 /\ loc'[c].session \notin Values(sessions')
          /\ (pc[c] = "init" /\ pc'[c] = "ask") =>
                 /\ Has(sessions', loc[c].session_id)
                 /\ At(sessions', loc[c].session_id) = loc'[c].session
                 /\ IsInitialized(obj'[loc'[c].session])
          /\ (pc'[c] = "ask" /\ pc[c] # "ask") =>
                 /\ obj'[loc'[c].session].notebook_url = loc'[c].notebook_url
                 /\ obj'[loc'[c].session].session_id = loc'[c].session_id]_vars

\* C14 witness: the id is registered again, for the URL that was asked for,
\* after the session it was registered for was closed, while another call
\* still holds the old object for its ask.
C14_ReplacedInUse ==
    \E c, d \in Callers :
        /\ done.result = "created"
        /\ pc[c] = "ask" /\ pc[d] = "ask"
        /\ loc[c].session_id = loc[d].session_id
        /\ loc[c].notebook_url # loc[d].notebook_url
        /\ At(sessions, loc[c].session_id) = loc[c].session

\* C15: a get_or_create_session call for a URL that is empty or not absolute
\* raises ValueError before anything else: no call is past the validation
\* with such a URL, and no BrowserSession is ever constructed for one.
C15_InvalidUrlHasNoEffect ==
    /\ \A c \in Callers :
          (loc[c].op = "ask" /\ pc[c] # "idle") => IsAbsoluteUrl(loc[c].notebook_url)
    /\ \A o \in Objs : obj[o] # NoSession => IsAbsoluteUrl(obj[o].notebook_url)

\* C16: at most one browser context is alive at any time, also while
\* get_or_create_context calls overlap.
C16_AtMostOneLiveContext == Cardinality(shared.live) <= 1

\* C17: the context that get_or_create_context returns to
\* get_or_create_session is alive and runs in the mode the call asks for: the
\* opposite of its override when it has one, CONFIG.headless otherwise.
C17_ContextInRequestedMode ==
    [][\A c \in Callers :
          (pc[c] = "acquire" /\ pc'[c] = "init") =>
              /\ shared'.context \in shared'.live
              /\ shared'.mode[shared'.context] =
                     IF loc[c].override_headless # None
                     THEN ~Val(loc[c].override_headless)
                     ELSE CONFIG_headless]_vars

\* What holds of close_all_sessions (see C18 below): it cancels the cleanup
\* task in its first step; it pops and closes the registered sessions one by one in the registry's
\* order, and the shared context is left alone until the last of them is
\* closed; close_context comes last, and when the call is over the registry
\* is empty and no context is alive, unless the stop of the driver raised.
CloseAllInOrder ==
    [][\A c \in Callers :
          /\ (pc[c] = "idle" /\ pc'[c] \in {"close_all", "close_context"}) =>
                 /\ ~cleanup_task' /\ sweep'.pc = "dead"
                 /\ shared' = Quiet(shared)
                 /\ KeyList(sessions) =
                        (IF done'.closed = {}
                         THEN <<>>
                         ELSE <<CHOOSE x \in done'.closed : TRUE>>) \o loc'[c].todo
                 /\ KeyList(sessions') = loc'[c].todo
                 /\ pc'[c] = "close_context" <=> sessions = <<>>
          /\ (pc[c] = "close_all" /\ (pc'[c] # "close_all" \/ loc'[c] # loc[c])) =>
                 /\ shared' = Quiet(shared)
                 /\ IF loc[c].todo = <<>>
                    THEN pc'[c] = "close_context" /\ sessions' = sessions
                    ELSE /\ pc'[c] = "close_all"
                         /\ done'.closed = {Head(loc[c].todo)}
                         /\ loc'[c].todo = Tail(loc[c].todo)
                         /\ KeyList(sessions') = loc'[c].todo
          /\ (pc[c] = "close_context" /\ pc'[c] # "close_context") =>
                 /\ sessions = <<>> /\ sessions' = <<>>
                 /\ shared'.live = {} \/ "stop_failed" \in shared'.ops
                 /\ shared.live # {} /\ "stop_failed" \notin shared'.ops =>
                        "close" \in shared'.ops]_vars

\* A close_all_sessions is over and the context that was alive is closed.
CloseAllDone ==
    /\ shutdown
    /\ sessions = <<>>
    /\ shared.live = {}
    /\ "close" \in shared.ops

\* C18: when close_all_sessions is over, the registry is empty and no
\* context is alive, whatever went wrong on the way.
C18_NoContextAfterCloseAll ==
    [][\A c \in Callers :
          (pc[c] = "close_context" /\ pc'[c] # "close_context") =>
              sessions' = <<>> /\ shared'.live = {}]_vars

\* C19: a pass of cleanup_inactive_sessions lists the sessions that have
\* been idle for more than the timeout when it begins, and closes and removes
\* these and no others, one in a step; the sessions it keeps stay registered
\* in their order, each exactly as it was.
C19_SweepRemovesExpiredOnly ==
    [][done'.by = "sweep" =>
          LET expired == {sid \in Keys(sessions) :
                              obj[At(sessions, sid)].idle > SessionTimeout}
              listed == IF sweep.pc = "sleep"
                        THEN expired
                        ELSE {sweep.inactive[i] : i \in 1..Len(sweep.inactive)}
              left == {sweep'.inactive[i] : i \in 1..Len(sweep'.inactive)}
          IN  /\ listed \subseteq expired
              /\ done'.closed \cup left = listed
              /\ done'.closed \cap left = {}
              /\ Cardinality(done'.closed) <= 1
              /\ done'.closed = {} <=> sweep'.pc = "sleep"
              /\ KeyList(sessions') =
                     SelectSeq(KeyList(sessions), LAMBDA sid : sid \notin done'.closed)
              /\ \A sid \in Keys(sessions') :
                     obj'[At(sessions', sid)] = obj[At(sessions, sid)]]_vars

\* C19 witness: a pass has removed a session while a session that has been
\* idle for exactly the timeout stays registered.
C19_SweptAtBoundary ==
    /\ done.by = "sweep"
    /\ done.closed # {}
    /\ \E sid \in Keys(sessions) : obj[At(sessions, sid)].idle = SessionTimeout

\* C20: between two calls message_count is the number of ask calls that
\* have returned an answer since the session was constructed or reset; a
\* call in progress has not counted itself before it has its answer, and
\* has counted itself exactly once when it returns.
C20_CountsAnsweredAsks ==
    ask.message_count = ask.answered + (IF ask.pc = "returned" THEN 1 ELSE 0)

\* C20 witness: an ask returns the answer of the replay after a recovery,
\* the second answer of the session.
C20_CountedAfterRecovery ==
    /\ ask.pc = "returned"
    /\ ask.attempt = 2
    /\ ask.message_count = 2

\* A registered session that has been idle for longer than the timeout.
IdleTooLong(sid) ==
    /\ ~shutdown
    /\ Has(sessions, sid)
    /\ IsExpired(obj[At(sessions, sid)], SessionTimeout)

\* C5: until the process is shut down, a registered session that is idle for
\* longer than the timeout is eventually removed (or used again).
C5_IdleSessionsAreSwept == \A sid \in SessionIds : IdleTooLong(sid) ~> ~IdleTooLong(sid)

\* -------------------------------------------------------------------- ask

\* C6: in one ask call a failure whose message tells of a closed page or
\* context leads to exactly one init by the `except` clause and one more
\* ask_once, whose failure is raised; any other failure is raised at once,
\* with no init and no second ask_once.
C6_RecoversExactlyOnce ==
    /\ ask.runs <= 2
    /\ ask.inits <= 1
    /\ ask.runs = 2 => ask.inits = 1
    /\ ask.inits = 1 => ask.msg # {} /\ ClosedRe(Val(ask.msg))
    /\ ask.pc \in {"returned", "raised"} =>
           /\ (ask.msg # {} /\ ClosedRe(Val(ask.msg))) => ask.inits = 1
           /\ (ask.msg # {} /\ ~ClosedRe(Val(ask.msg))) =>
                  ask.pc = "raised" /\ ask.runs = 1 /\ ask.error = ask.msg
           /\ ask.msg = {} => ask.pc = "returned" /\ ask.runs = 1

\* C6 witness: a closed page was recovered from and the second ask_once failed.
C6_ReplayFailed ==
    /\ ask.pc = "raised"
    /\ ask.runs = 2
    /\ ask.inits = 1
    /\ ask.error # ask.msg

\* C21: a rate limit found after the answer is raised as it is: when it is
\* what the first ask_once raised there is no init and no second ask_once,
\* the call ends raising it with message_count as it was before the call, and
\* handle_ask_question returns a failure with the guidance and the message.
C21_RateLimitNotRetried ==
    /\ ask.msg = {RateLimitReached} =>
           /\ ask.pc \in {"raised", "idle"}
           /\ ask.runs = 1 /\ ask.inits = 0
           /\ ask.error = ask.msg
    /\ (ask.pc = "raised" /\ ask.error = {RateLimitReached}) =>
           /\ ask.message_count = ask.answered
           /\ ask.runs = ask.attempt
           /\ LET result == AskQuestionFailure(Val(ask.error))
              IN  /\ ~result.success
                  /\ Contains(result.error, RateLimitGuidance)
                  /\ Contains(result.error, RateLimitReached)

\* C21 witness: the second ask of a session has raised the rate limit from
\* its first ask_once, after the first ask was answered.
C21_RateLimitedAfterAnswer ==
    /\ ask.pc = "raised"
    /\ ask.error = {RateLimitReached}
    /\ ask.attempt = 1
    /\ ask.answered = 1

\* C22: an ask whose wait for the answer times out raises with the session
\* initialized, its page the one it had, and the shared context as it was;
\* the end of the call and the begin of the next leave them so, and an
\* ask_once that finds the session initialized with its page open goes on
\* with that page and calls no init.
C22_TimeoutKeepsPage ==
    [][/\ (ask.pc = "wait" /\ ask'.pc = "raised" /\ ask'.error = {TimeoutWaiting}) =>
              /\ ask'.initialized
              /\ ask'.page = ask.page /\ ask'.page_no = ask.page_no
              /\ ask'.inits = ask.inits /\ ask'.runs = ask.runs
              /\ shared' = shared
       /\ (ask.pc \in {"raised", "idle"} /\ ask'.pc \in {"idle", "ensure"}
             /\ ask'.pc # ask.pc) =>
              /\ ask'.initialized = ask.initialized
              /\ ask'.page = ask.page /\ ask'.page_no = ask.page_no
              /\ shared' = shared
       /\ (ask.pc = "ensure" /\ ask'.pc # "ensure"
             /\ ask.initialized /\ ask.page = "open") =>
              ask' = [ask EXCEPT !.pc = "auth"]]_vars

\* C22 witness: an ask is on its way on the page that the ask before it
\* timed out on.
C22_NextAskOnSamePage ==
    /\ ask.pc = "auth"
    /\ ask.last = {TimeoutWaiting}
    /\ ask.runs = 1
    /\ ask.page = "open"
    /\ ask.page_no = 1
    /\ ask.answered = 0

\* C26: reset recovers as ask does: only a failure of the first reset_once
\* whose message tells of a closed page or context leads to one init by the
\* `except` clause and one more reset_once, and any other failure, or one of
\* the recovery, is raised.  message_count is 0 when reset returns, at once
\* or after the recovery, and is what it was before the call while reset
\* runs and when it raises.
C26_ResetZeroesOnSuccess ==
    ask.pc \in {"reset", "reset_recover", "reset_returned", "reset_raised"} =>
        /\ ask.runs <= 2 /\ ask.inits <= 1
        /\ ask.runs = 2 => ask.inits = 1
        /\ ask.inits = 1 => ask.msg # {} /\ ClosedRe(Val(ask.msg))
        /\ ask.pc = "reset_returned" =>
               /\ ask.message_count = 0
               /\ ask.msg = {} => ask.runs = 1
               /\ ask.msg # {} => ask.runs = 2
        /\ ask.pc = "reset_raised" =>
               /\ ask.message_count = ask.before
               /\ ask.msg # {}
               /\ ClosedRe(Val(ask.msg)) => ask.inits = 1
               /\ ~ClosedRe(Val(ask.msg)) =>
                      ask.runs = 1 /\ ask.inits = 0 /\ ask.error = ask.msg
        /\ ask.pc \in {"reset", "reset_recover"} => ask.message_count = ask.before

\* C26 witness: a reset of a session with two answered asks has returned
\* from the reset_once of its recovery.
C26_ResetAfterRecovery ==
    /\ ask.pc = "reset_returned"
    /\ ask.attempt = 2
    /\ ask.before = 2
    /\ ask.message_count = 0

\* C27: what handle_ask_question, handle_close_session and
\* handle_reset_session hand to _dispatch is a result and never an
\* exception: a call on which the session or the registry raised ends with
\* success = FALSE and an error that holds the message raised, and call_tool
\* hands that result on as it is.
C27_FailuresBecomeResults ==
    /\ ask.pc = "idle" /\ ask.last # {} => ask.result # {}
    /\ \A r \in ask.result :
           /\ "success" \in DOMAIN r
           /\ CallTool(r) = r
           /\ ~r.success => "error" \in DOMAIN r /\ r.error # <<>>
           /\ ask.last # {} => ~r.success /\ Contains(r.error, Val(ask.last))

\* C27 witness: reset_session has ended with the failure of a reset that
\* raised the timeout of its reload, on a session with an answered ask.
C27_ResetFailureReturned ==
    /\ ask.pc = "idle"
    /\ ask.last = {TimeoutExceeded}
    /\ ask.result = {[success |-> FALSE, error |-> TimeoutExceeded]}
    /\ ask.initialized
    /\ ask.message_count = 1

\* ---------------------------------------------------------------- watcher

\* C7: a text that is the only new text on the page, is not the question's
\* echo and is there at three polls in a row is returned by the watcher.
C7_SteadyAnswerIsReturned ==
    watch.steady >= required_stable =>
        watch.pc = "done" /\ watch.result = watch.steady_text

\* C8: the watcher returns a text only with the stability counter at
\* required_stable, and that text is the counted candidate; with the counter
\* below it at the deadline the result is None.
C8_ReturnsOnlyStableText ==
    /\ watch.pc # "done" => watch.result = {}
    /\ watch.pc = "done" =>
           IF watch.stable_count >= required_stable
           THEN watch.result # {} /\ watch.result = watch.last_candidate
           ELSE watch.result = {}

\* C8 witness: the deadline passed with a candidate counted twice.
C8_DeadlineAtTwo ==
    watch.pc = "done" /\ watch.stable_count = 2 /\ watch.last_candidate # {}

\* C9: the watcher never returns a text that, stripped and in lower case,
\* is the stripped question in lower case.
C9_NeverReturnsEcho ==
    \A r \in watch.result : Lower(Strip(r)) # Lower(Strip(watch.question))

\* C9 witness: an answer was returned after the echo had been a candidate.
C9_EchoWasCandidate ==
    watch.pc = "done" /\ watch.result # {} /\ watch.known_hashes # watch.ignore

\* C10: the answer is never a text that the page showed in an answer
\* container when the snapshot was taken.
C10_NeverReturnsSnapshotText == \A r \in watch.result : r \notin watch.visible


\* ---------------------------------------------------------- configuration

\* C23: CONFIG.headless has its start-up value at every moment, during and
\* after the tool calls.
C23_ConfigNeverMutated == CONFIG_headless = TRUE


\* ------------------------------------------------------------- cookies

\* C24: validate_cookies_expiry returns False for no cookies, False when no
\* cookie has a critical name, False when a critical cookie has a time of
\* expiry, 0 or later, that is before now, and True otherwise; it returns also
\* when cookies() raised.
C24_ValidateCookiesTable ==
    auth.result # "" =>
        /\ auth.result \in {"True", "False"}
        /\ ~auth.raises =>
               LET present == {auth.cookies[i] : i \in 1..Len(auth.cookies)}
                   critical == {c \in present : c.name \in CRITICAL_COOKIE_NAMES}
               IN  auth.result = "False" <=>
                       \/ present = {}
                       \/ critical = {}
                       \/ \E c \in critical :
                              /\ "expires" \in DOMAIN c
                              /\ \E t \in c.expires : t >= 0 /\ t < auth.now

\* C24 witness: True for a critical cookie that expires at this very second
\* beside a cookie that is not critical and has expired.
C24_ValidAtBoundary ==
    /\ auth.result = "True"
    /\ \E i, j \in 1..Len(auth.cookies) :
          /\ auth.cookies[i].name \in CRITICAL_COOKIE_NAMES
          /\ GetExpires(auth.cookies[i]) = {auth.now}
          /\ auth.cookies[j].name \notin CRITICAL_COOKIE_NAMES
          /\ GetExpires(auth.cookies[j]) = {0}


\* ------------------------------------------------------------ sessions

\* C25: when close() of a session has returned, the session is not
\* initialized, whether page.close() returned or raised: a call that holds
\* the session for its ask finds _initialized false and is_initialized()
\* false, and the call that closed it goes on.
C25_ClosedIsNotInitialized ==
    [][\A d \in Callers, sid \in SessionIds :
          (/\ pc[d] = "ask" /\ pc'[d] = "ask"
           /\ done'.closed = {sid}
           /\ Has(sessions, sid)
           /\ At(sessions, sid) = loc[d].session) =>
              /\ ~obj'[loc'[d].session].initialized
              /\ ~IsInitialized(obj'[loc'[d].session])
              /\ ~Has(sessions', sid)
              /\ done'.result = ""]_vars

\* C25 witness: a session that a call holds for its ask was closed, and its
\* page, which could not be closed, is still there.
C25_ClosedWithPageLeft ==
    \E d \in Callers :
        /\ pc[d] = "ask"
        /\ done.closed = {obj[loc[d].session].session_id}
        /\ ~obj[loc[d].session].initialized
        /\ obj[loc[d].session].page = "open"


\* -------------------------------------------------------------- candidates

\* C28: at a poll with no thinking indicator visible the candidate is the
\* first text of the page, in the order of its containers, whose hash is
\* not in known_hashes, and there is none only when every text's hash is in
\* known_hashes, however many containers and hashes there are.
C28_CandidateIsFirstUnknown ==
    (watch.poll_count > 0 /\ ~watch.skipped) => watch.candidate = watch.fresh

\* C29: stable_count is the number of polls in a row, up to the last one, at
\* which the candidate was last_candidate; a poll with another candidate or,
\* the thinking indicator not visible, with none starts the count again.
C29_CountsConsecutiveSightings ==
    watch.stable_count =
        (IF watch.sighted = watch.last_candidate THEN watch.sightings ELSE 0)

\* C30: a poll at which the thinking indicator is visible leaves
\* stable_count, last_candidate and known_hashes as they were, returns
\* nothing, and is one more poll before the deadline.
C30_SkippedTickChangesNothing ==
    [][(watch.pc = "poll" /\ watch'.poll_count # watch.poll_count /\ watch'.skipped) =>
           /\ watch'.stable_count = watch.stable_count
           /\ watch'.last_candidate = watch.last_candidate
           /\ watch'.known_hashes = watch.known_hashes
           /\ watch'.poll_count = watch.poll_count + 1
           /\ watch'.pc = "poll" /\ watch'.result = {}]_vars

\* C30 witness: the thinking indicator was visible at a poll that came after
\* two polls with the same candidate and an echo put into known_hashes.
C30_SkippedAfterTwoSightings ==
    /\ watch.pc = "poll"
    /\ watch.skipped
    /\ watch.stable_count = 2
    /\ watch.last_candidate # {}
    /\ watch.known_hashes # watch.ignore


\* ------------------------------------------------------------------ login

\* C31: in login_with_credentials, the page not on the target and no entry
\* of the chooser matching, the identifier is filled and the password field
\* is then looked for before the deadline: the loop for the password field
\* is left only after it has looked for the field at least once.
C31_PasswordPolledWithinDeadline ==
    LET l == auth.login
    IN  (l.op = "credentials" /\ l.pc \in {"redirect", "returned"}
           /\ ~l.chooser /\ l.identifier) => l.polls > 0


\* C32: perform_login comes to an end: its loop reads the URL at most
\* max_attempts times and once more after the loop; it returns True at the
\* first read that finds the URL on the target, so no read before the last
\* found it there, and False when no read did; two progress messages of the
\* wait are at least 10 elapsed seconds apart.
C32_LoginWaitIsBounded ==
    LET l == auth.login
    IN  l.op = "manual" =>
            /\ l.attempt <= max_attempts
            /\ l.polls <= l.attempt + 1
            /\ l.pc = "final_check" => l.attempt = max_attempts
            /\ l.pc \in {"poll_url", "final_check"} => l.url # "target" /\ l.result = ""
            /\ l.pc = "returned" => (l.result = "True" <=> l.url = "target")
            /\ l.pc = "returned" => l.result \in {"True", "False"}
            /\ ~l.early

\* C32 witness: perform_login has returned False after max_attempts reads
\* of the URL in the loop and the one after it, with progress messages sent.
C32_GaveUpAfterFinalCheck ==
    LET l == auth.login
    IN  /\ l.op = "manual" /\ l.pc = "returned" /\ l.result = "False"
        /\ l.polls = max_attempts + 1
        /\ l.last_progress = max_attempts - 10


\* ---------------------------------------------------------------- launches

\* C33: under strategy "single" the only launch is the one for the base
\* profile; under "auto" the base profile is launched first, and a launch
\* for an isolated directory follows, once, exactly when the first raised
\* for a profile in use; when the first launch raised for anything else, or
\* the launch of the fallback raised, get_or_create_context fails and
\* self._context is None.
C33_FallbackOnlyOnProfileInUse ==
    LET ops == shared.ops
    IN  /\ "single" \in ops => "base" \in ops /\ "fallback" \notin ops
                                 /\ "isolated_dir" \notin ops
        /\ "auto" \in ops =>
               /\ "base" \in ops
               /\ "fallback" \in ops <=> "singleton" \in ops
        /\ "other" \in ops => "launch_failed" \in ops /\ "fallback" \notin ops
        /\ "launch_failed" \in ops =>
               /\ shared.context = 0 /\ shared.current_headless = None
               /\ "launch" \notin ops
        /\ ("call" \in ops /\ "launch" \in ops) =>
               "launch_failed" \notin ops /\ shared.context \in shared.live

\* C33 witness: under "auto" the base profile was in use and the launch of
\* the fallback raised, after a context of the other mode had been closed.
C33_FallbackFailed ==
    /\ {"auto", "singleton", "fallback", "launch_failed", "mode_change", "close"}
           \subseteq shared.ops
    /\ shared.context = 0


\* C34: get_or_create_context on a context that is alive and has the mode
\* asked for returns with that context, the browser's contexts as they
\* were, and no launch; when cookies() of the context raises, the context
\* and its headless flag are forgotten together and a launch follows in the
\* same call, which sets both again or, raising, leaves both None.
C34_ProbedContextIsReused ==
    []["call" \in shared'.ops =>
          /\ (shared.context \in shared.live /\ "mode_change" \notin shared'.ops) =>
                 /\ shared'.context = shared.context
                 /\ shared'.current_headless = shared.current_headless
                 /\ shared'.live = shared.live
                 /\ shared'.ops = {"call"}
          /\ "probe_failed" \in shared'.ops =>
                 /\ shared'.ops \cap {"base", "isolated_dir"} # {}
                 /\ "launch" \in shared'.ops \/ "launch_failed" \in shared'.ops
                 /\ "launch" \in shared'.ops =>
                        /\ shared'.context \in shared'.live
                        /\ shared'.current_headless # None
                 /\ "launch_failed" \in shared'.ops =>
                        shared'.context = 0 /\ shared'.current_headless = None]_vars

\* C34 witness: a call found its context dead, without a change of mode,
\* and launched a new one.
C34_RelaunchedAfterProbe ==
    /\ {"call", "probe_failed", "launch"} \subseteq shared.ops
    /\ "mode_change" \notin shared.ops
    /\ shared.context \in shared.live


\* --------------------------------------------------------- authentication

\* C35: in the init of a new session that finds the cookies invalid, a saved
\* state that get_valid_state_path accepts is loaded and the cookies are
\* validated again before anything else; login_with_credentials is called
\* exactly when that gave no valid cookies and auto-login is enabled, and
\* after the load; with auto-login disabled init raises.  Whenever init
\* raises, the session is left not initialized and without a page, and the
\* registry is as it was, without the session's id.
C35_LoadsStateBeforeLogin ==
    [][pc["c1"] = "init" /\ pc'["c1"] # "init" =>
          LET i == auth'.init
              invalid == Len(i.steps) >= 2 /\ ~i.valid[1] /\ ~i.valid[2]
              Where(x) == {k \in 1..Len(i.steps) : i.steps[k] = x}
          IN  /\ (invalid /\ i.state) =>
                     SubSeq(i.steps, 3, 7)
                         = <<"validate", "state_path", "load", "reload", "validate">>
              /\ (invalid /\ ~i.state) => Where("load") = {}
              /\ invalid =>
                     /\ Where("login") # {} <=> (~(i.state /\ i.valid[3]) /\ i.auto)
                     /\ \A k \in Where("login") : \A j \in Where("load") : j + 2 < k
                     /\ (~(i.state /\ i.valid[3]) /\ ~i.auto) => ~i.ok
              /\ ~invalid => Where("login") = {}
              /\ ~i.ok =>
                     /\ ~i.left.initialized
                     /\ i.left.page = "none"
                     /\ sessions' = sessions
                     /\ ~Has(sessions', i.left.session_id)
              /\ i.ok => Has(sessions', i.left.session_id)]_vars

\* C35 witness: an init loaded the saved state, found the cookies still
\* invalid, logged in with the credentials without success and raised.
C35_LoginAfterStateFailed ==
    /\ pc["c1"] = "idle"
    /\ ~auth.init.ok
    /\ auth.init.left.session_id # ""
    /\ auth.init.steps = <<"goto", "validate", "validate", "state_path", "load",
                           "reload", "validate", "login">>


\* ------------------------------------------------------------------ typing

\* C36: with human typing enabled every value given to page.fill is a
\* prefix of the text, or a prefix and one character of _random_char after
\* it, which the next fill takes away again; such a value comes only after
\* the first character was typed and only with with_typos; when human_type
\* has returned, the last value filled in is the text.
C36_TypesPrefixesOfText ==
    LET t == ask.typing
        IsPrefix(s) == Len(s) <= Len(t.text) /\ s = SubSeq(t.text, 1, Len(s))
    IN  t.human =>
            /\ \A k \in 1..Len(t.fills) :
                   \/ k \notin t.typos /\ IsPrefix(t.fills[k])
                   \/ /\ k \in t.typos
                      /\ k < Len(t.fills)
                      /\ t.fills[k + 1] = SubSeq(t.fills[k], 1, Len(t.fills[k]) - 1)
                      /\ IsPrefix(t.fills[k + 1])
                      /\ k + 1 \notin t.typos
            /\ \A k \in t.typos : t.with_typos /\ Len(t.fills[k]) >= 2
            /\ t.pc = "returned" => t.fills[Len(t.fills)] = t.text

\* C36 witness: a text of three characters has been typed with a wrong
\* character before its second and before its third character.
C36_TypedWithTwoTypos ==
    /\ ask.typing.human /\ ask.typing.pc = "returned"
    /\ Len(ask.typing.text) = 3
    /\ Cardinality(ask.typing.typos) = 2
    /\ \E k \in ask.typing.typos : ask.typing.fills[k][Len(ask.typing.fills[k])]
                                       # ask.typing.text[Len(ask.typing.fills[k])]


\* ---------------------------------------------------------------- removal

\* C37: when the session that a call holds for its ask has been closed and
\* is no longer in the registry, the ask ends without a page: the session is
\* not initialized again.
C37_RemovedSessionStaysClosed ==
    [][(/\ pc["c1"] = "ask" /\ pc'["c1"] = "idle"
        /\ \A k \in 1..Len(sessions) : sessions[k].o # loc["c1"].session
        /\ obj[loc["c1"].session].page = "none"
        /\ ~obj[loc["c1"].session].initialized) =>
           auth'.init.left.page # "open"]_vars


\* C38: every session object that is initialized and holds an open page is
\* the one that the registry has under its id, also when calls of
\* get_or_create_session for one id overlap.
C38_OpenPagesAreRegistered ==
    \A o \in Objs :
        (obj[o].initialized /\ obj[o].page = "open") =>
            \E k \in 1..Len(sessions) :
                sessions[k].sid = obj[o].session_id /\ sessions[k].o = o


\* C39: whatever show_browser and browser_options a call of ask_question
\* gives, the CONFIG.headless it sets is the mode of the override it hands
\* to get_or_create_session, and the init of the new session, which
\* acquires the context with no override, finds the live context in that
\* mode: it neither closes it nor launches another.
C39_InitKeepsTheContext ==
    [][\A c \in Callers :
          /\ (pc'[c] = "acquire" /\ loc'[c].op = "ask"
                 /\ loc'[c].override_headless # None) =>
                 CONFIG_headless' = ~Val(loc'[c].override_headless)
          /\ (pc[c] = "init" /\ pc'[c] # "init" /\ shared.context \in shared.live) =>
                 shared'.ops \cap {"close", "launch"} = {}]_vars


====
